---- MODULE Spec2Model ----
(***************************************************************************)
(* authifi: a MAC-authentication RADIUS server.                            *)
(*                                                                         *)
(* The model covers the in-memory registry (MemoryDatabase), held by the   *)
(* YAML database in its field `memory`, and the RADIUS Access-Request      *)
(* handler of StartServer that reads it.                                   *)
(*                                                                         *)
(* Every registry call and every handled request is one atomic step.  Its  *)
(* outcome (the returned error, or the written response together with the  *)
(* NotifyLoginAttempt calls made) is held in `ret` / `handled` until the   *)
(* caller has taken it; the next call starts after that.  So while an      *)
(* outcome is held, `memory` is the registry the call has left behind.     *)
(* Where the calls are traced, `call` holds the argument of that call and  *)
(* the registry it started from.                                           *)
(*                                                                         *)
(* `file` is the content of the registry file of the YAMLDatabase          *)
(* (loadFile, dumpFile, save-on-mutate, load).  `bot` and `reloader` are   *)
(* the positions of a bot handler and of a reload that run statement by    *)
(* statement; `watcher` is the loop of watch with its debounce timers.     *)
(***************************************************************************)
EXTENDS Integers, Sequences, FiniteSets, TLC

VARIABLES memory, ret, handled, call, file, bot, reloader, watcher,
          lruCache, trace, newDeviceCache, editDeviceCache, chat, ids,
          callers, radius, serve

vars == <<memory, ret, handled, call, file, bot, reloader, watcher,
          lruCache, trace, newDeviceCache, editDeviceCache, chat, ids,
          callers, radius, serve>>

\* The bot handler in flight and the reload in flight, which run only where
\* the goroutines are interleaved.
goroutines == <<bot, reloader>>

\* The correlation caches and the chat of the bot, the registry callers and
\* the RADIUS handler that run statement by statement, and the supervisor.
beyond == <<lruCache, trace, newDeviceCache, editDeviceCache, chat, ids,
            callers, radius, serve>>

\* What the calls on the MemoryDatabase and the RADIUS handler leave alone.
aside == <<file, goroutines, watcher, beyond>>

(***************************************************************************)
(* Bounds of the model.                                                    *)
(***************************************************************************)
MaxVLANs == 2
MaxUsers == 1
MaxEvents == 3
MaxTime == 5
MaxCapacity == 2
MaxOps == 4
MaxMessages == 2
MaxIDs == 4

(***************************************************************************)
(* Program constants.                                                      *)
(***************************************************************************)
vlanTunnelType == 13
\* ReloadTimeout, in milliseconds.
ReloadTimeout == 100
TunnelMediumType_Value_IEEE802 == 6
\* The capacities of the two correlation caches: 100 and 10 in the program,
\* scaled down so that the model fills them.
newDeviceDataCacheSize == 3
editDeviceDataCacheSize == 3
\* The larger of the two.
LargestCache ==
    IF newDeviceDataCacheSize > editDeviceDataCacheSize
    THEN newDeviceDataCacheSize ELSE editDeviceDataCacheSize

(***************************************************************************)
(* Value domains the inputs are drawn from.                                *)
(***************************************************************************)
VlanIDs == {ToString(i) : i \in 1..MaxVLANs}
Usernames == {"dev" \o ToString(i) : i \in 1..MaxUsers}
WrongPassword == "wrong"
MacAddress == "aa:bb:cc:11:22:33"
\* <<TunnelType, TunnelMediumType>> of a VLAN: 0 is a field that is not set.
TunnelSettings == {<<0, 0>>, <<5, 0>>, <<0, 7>>}

\* database.VLAN
VLAN ==
    {v \in [ID : VlanIDs, Name : {"lan"}, Default : BOOLEAN,
            TunnelType : {s[1] : s \in TunnelSettings},
            TunnelMediumType : {s[2] : s \in TunnelSettings}] :
        <<v.TunnelType, v.TunnelMediumType>> \in TunnelSettings}

\* The VLANs handed to the registry alone: the registry stores the tunnel
\* fields and never reads them, so they are left unset.
RegistryVLANs == {v \in VLAN : v.TunnelType = 0 /\ v.TunnelMediumType = 0}

\* database.User
User == [Username : Usernames, Password : Usernames \cup {WrongPassword},
         VlanID : VlanIDs, Description : {""}]

\* The devices the callers hand to CreateUser / UpdateUser: the password is
\* the username (MAC-auth) or another string.
UserInputs == {u \in User : u.Password \in {u.Username, WrongPassword}}

\* A Go error: nil or one of the sentinel errors of the database package.
NoError == "nil"
ErrUserNotFound == "user not found"
ErrUserAlreadyExists == "user already exists"
ErrVLANNotFound == "vlan not found"
ErrVLANAlreadyExists == "vlan already exists"
ErrDefaultVLANNotFound == "default vlan not found"
ErrDefaultVLANAlreadyExists == "default vlan already exists"
ErrBlockedUserNotFound == "blocked user not found"
ErrUserAlreadyBlocked == "user already blocked"

(***************************************************************************)
(* Go maps: a function whose domain is the set of keys present.            *)
(***************************************************************************)
EmptyMap == <<>>
MapPut(m, k, v) == [x \in (DOMAIN m) \cup {k} |-> IF x = k THEN v ELSE m[x]]
MapDelete(m, k) == [x \in (DOMAIN m) \ {k} |-> m[x]]
Range(m) == {m[x] : x \in DOMAIN m}

\* A pointer that may be nil: <<>> is nil, <<v>> points to v.
Nil == <<>>

(***************************************************************************)
(* MemoryDatabase                                                          *)
(***************************************************************************)
NewMemoryDatabase ==
    [users |-> EmptyMap, vlans |-> EmptyMap, blockedUsers |-> EmptyMap,
     defaultVLAN |-> Nil]

\* strconv.Atoi on the ids of the model; a string that is no number gives 0
\* (the caller drops the error).
Atoi(s) ==
    IF \E i \in 0..(MaxVLANs + LargestCache) : ToString(i) = s
    THEN CHOOSE i \in 0..(MaxVLANs + LargestCache) : ToString(i) = s
    ELSE 0

\* GetVLANs: the VLANs sorted by Atoi(ID).  The map is walked in no fixed
\* order and the sort is not stable, so VLANs of equal key come in any
\* order: the operator gives every sequence the call may return.
GetVLANs(d) ==
    {s \in [1..Cardinality(DOMAIN d.vlans) -> Range(d.vlans)] :
        /\ \A i, j \in DOMAIN s : i # j => s[i] # s[j]
        /\ \A i, j \in DOMAIN s : i < j => Atoi(s[i].ID) <= Atoi(s[j].ID)}

GetVLAN(d, id) ==
    IF id \notin DOMAIN d.vlans
    THEN [vlan |-> Nil, err |-> ErrVLANNotFound]
    ELSE [vlan |-> <<d.vlans[id]>>, err |-> NoError]

CreateVLAN(d, v) ==
    IF v.ID \in DOMAIN d.vlans
    THEN [db |-> d, err |-> ErrVLANAlreadyExists]
    ELSE IF v.Default /\ d.defaultVLAN # Nil
    THEN [db |-> d, err |-> ErrDefaultVLANAlreadyExists]
    ELSE [db |-> [d EXCEPT !.defaultVLAN = IF v.Default THEN <<v>> ELSE @,
                           !.vlans = MapPut(@, v.ID, v)],
          err |-> NoError]

UpdateVLAN(d, v) ==
    IF v.ID \notin DOMAIN d.vlans
    THEN [db |-> d, err |-> ErrVLANNotFound]
    ELSE [db |-> [d EXCEPT !.vlans = MapPut(@, v.ID, v)], err |-> NoError]

DeleteVLAN(d, id) ==
    IF id \notin DOMAIN d.vlans
    THEN [db |-> d, err |-> ErrVLANNotFound]
    ELSE [db |-> [d EXCEPT !.vlans = MapDelete(@, id)], err |-> NoError]

GetDefaultVLAN(d) ==
    IF d.defaultVLAN = Nil
    THEN [vlan |-> Nil, err |-> ErrDefaultVLANNotFound]
    ELSE [vlan |-> d.defaultVLAN, err |-> NoError]

GetUser(d, username) ==
    IF username \notin DOMAIN d.users
    THEN [user |-> Nil, err |-> ErrUserNotFound]
    ELSE [user |-> <<d.users[username]>>, err |-> NoError]

\* Faulty variant of CreateUser: the VLAN of the Device is not looked up.
CreateUserNoValidation(d, u) ==
    IF u.Username \in DOMAIN d.users
    THEN [db |-> d, err |-> ErrUserAlreadyExists]
    ELSE [db |-> [d EXCEPT !.users = MapPut(@, u.Username, u)], err |-> NoError]

CreateUser(d, u) ==
    IF u.Username \in DOMAIN d.users
    THEN [db |-> d, err |-> ErrUserAlreadyExists]
    ELSE IF GetVLAN(d, u.VlanID).err # NoError
    THEN [db |-> d, err |-> GetVLAN(d, u.VlanID).err]
    ELSE [db |-> [d EXCEPT !.users = MapPut(@, u.Username, u)], err |-> NoError]

UpdateUser(d, u) ==
    IF u.Username \notin DOMAIN d.users
    THEN [db |-> d, err |-> ErrUserNotFound]
    ELSE [db |-> [d EXCEPT !.users = MapPut(@, u.Username, u)], err |-> NoError]

\* Faulty variant of DeleteUser: the blocklist entry of the username stays.
DeleteUserKeepBlocked(d, username) ==
    IF username \in DOMAIN d.users
    THEN [db |-> [d EXCEPT !.users = MapDelete(@, username)], err |-> NoError]
    ELSE [db |-> d, err |-> ErrUserNotFound]

DeleteUser(d, username) ==
    IF username \notin DOMAIN d.users
    THEN [db |-> d, err |-> ErrUserNotFound]
    ELSE [db |-> [d EXCEPT !.users = MapDelete(@, username),
                           !.blockedUsers = MapDelete(@, username)],
          err |-> NoError]

\* Faulty variant of BlockUser: a blocked username is blocked again.
BlockUserOverwrite(d, username) ==
    [db |-> [d EXCEPT !.blockedUsers = MapPut(@, username, [Username |-> username])],
     err |-> NoError]

BlockUser(d, username) ==
    IF username \in DOMAIN d.blockedUsers
    THEN [db |-> d, err |-> ErrUserAlreadyBlocked]
    ELSE [db |-> [d EXCEPT !.blockedUsers = MapPut(@, username, [Username |-> username])],
          err |-> NoError]

\* UnblockUser: the blocklist entry is deleted first; a username without a
\* Device then gets one on the default VLAN, or on the first VLAN of GetVLANs
\* (vlans is the sequence GetVLANs returned).
UnblockUser(d, username, vlans) ==
    IF username \notin DOMAIN d.blockedUsers
    THEN [db |-> d, err |-> ErrBlockedUserNotFound]
    ELSE LET d1 == [d EXCEPT !.blockedUsers = MapDelete(@, username)]
             def == GetDefaultVLAN(d1)
         IN  IF username \in DOMAIN d1.users
             THEN [db |-> d1, err |-> NoError]
             ELSE IF def.err = NoError
             THEN [db |-> [d1 EXCEPT !.users = MapPut(@, username,
                              [Username |-> username, VlanID |-> def.vlan[1].ID,
                               Password |-> username, Description |-> ""])],
                   err |-> NoError]
             ELSE IF Len(vlans) = 0
             THEN [db |-> d1, err |-> ErrVLANNotFound]
             ELSE [db |-> [d1 EXCEPT !.users = MapPut(@, username,
                              [Username |-> username, VlanID |-> vlans[1].ID,
                               Password |-> username, Description |-> ""])],
                   err |-> NoError]

\* Faulty variant of IsUserBlocked: looks the username up among the Devices.
IsUserBlockedInUsers(d, username) ==
    [blocked |-> username \in DOMAIN d.users, err |-> NoError]


IsUserBlocked(d, username) ==
    [blocked |-> username \in DOMAIN d.blockedUsers, err |-> NoError]

\* The sort key of GetUsers and GetBlockedUsers: the place of
\* strings.ToLower(username) among the usernames of the model ("dev1" <
\* "dev2" < ...).
UsernameKey(username) ==
    IF \E i \in 1..MaxUsers : "dev" \o ToString(i) = username
    THEN CHOOSE i \in 1..MaxUsers : "dev" \o ToString(i) = username
    ELSE 0

\* GetUsers: the Devices sorted by lower-cased username (every sequence the
\* unstable sort may return).
GetUsers(d) ==
    {s \in [1..Cardinality(DOMAIN d.users) -> Range(d.users)] :
        /\ \A i, j \in DOMAIN s : i # j => s[i] # s[j]
        /\ \A i, j \in DOMAIN s :
              i < j => UsernameKey(s[i].Username) <= UsernameKey(s[j].Username)}

\* GetBlockedUsers: the blocklist sorted the same way.
GetBlockedUsers(d) ==
    {s \in [1..Cardinality(DOMAIN d.blockedUsers) -> Range(d.blockedUsers)] :
        /\ \A i, j \in DOMAIN s : i # j => s[i] # s[j]
        /\ \A i, j \in DOMAIN s :
              i < j => UsernameKey(s[i].Username) <= UsernameKey(s[j].Username)}

(***************************************************************************)
(* The YAML file.  A file is empty, text that is no YAML, or a YAML        *)
(* mapping: its sections in file order, each a key and a list of entries;  *)
(* an entry is the mapping of the yaml keys that are written.              *)
(***************************************************************************)
ErrDecoding == "error decoding file"
ErrCreating == "error creating file"
ErrEncoding == "error encoding file"

EmptyFile == [kind |-> "empty", sections |-> <<>>]
GarbageFile == [kind |-> "garbage", sections |-> <<>>]

\* yaml encoding of a database.VLAN: default, tunnelType and tunnelMediumType
\* are omitempty.
EncodeVLAN(v) ==
    [k \in {"id", "name"}
            \cup (IF v.Default THEN {"default"} ELSE {})
            \cup (IF v.TunnelType # 0 THEN {"tunnelType"} ELSE {})
            \cup (IF v.TunnelMediumType # 0 THEN {"tunnelMediumType"} ELSE {}) |->
        CASE k = "id" -> v.ID
          [] k = "name" -> v.Name
          [] k = "default" -> v.Default
          [] k = "tunnelType" -> v.TunnelType
          [] k = "tunnelMediumType" -> v.TunnelMediumType]

\* yaml decoding into a database.VLAN: a key that is absent leaves the zero
\* value of the field.
DecodeVLAN(e) ==
    [ID |-> IF "id" \in DOMAIN e THEN e["id"] ELSE "",
     Name |-> IF "name" \in DOMAIN e THEN e["name"] ELSE "",
     Default |-> IF "default" \in DOMAIN e THEN e["default"] ELSE FALSE,
     TunnelType |-> IF "tunnelType" \in DOMAIN e THEN e["tunnelType"] ELSE 0,
     TunnelMediumType |->
        IF "tunnelMediumType" \in DOMAIN e THEN e["tunnelMediumType"] ELSE 0]

\* database.User: description is omitempty, VlanID is the key "vlan".
EncodeUser(u) ==
    [k \in {"username", "password", "vlan"}
            \cup (IF u.Description # "" THEN {"description"} ELSE {}) |->
        CASE k = "username" -> u.Username
          [] k = "password" -> u.Password
          [] k = "vlan" -> u.VlanID
          [] k = "description" -> u.Description]

DecodeUser(e) ==
    [Username |-> IF "username" \in DOMAIN e THEN e["username"] ELSE "",
     Password |-> IF "password" \in DOMAIN e THEN e["password"] ELSE "",
     VlanID |-> IF "vlan" \in DOMAIN e THEN e["vlan"] ELSE "",
     Description |-> IF "description" \in DOMAIN e THEN e["description"] ELSE ""]

\* database.BlockedUser
EncodeBlockedUser(b) == [k \in {"username"} |-> b.Username]

DecodeBlockedUser(e) ==
    [Username |-> IF "username" \in DOMAIN e THEN e["username"] ELSE ""]

\* yaml.NewEncoder(f).Encode(yf): the sections in the order of the fields of
\* yamlFile.
Encode(yf) ==
    [kind |-> "mapping",
     sections |->
        <<[key |-> "users",
           items |-> [i \in DOMAIN yf.Users |-> EncodeUser(yf.Users[i])]],
          [key |-> "vlans",
           items |-> [i \in DOMAIN yf.VLANs |-> EncodeVLAN(yf.VLANs[i])]],
          [key |-> "blocked",
           items |-> [i \in DOMAIN yf.BlockedUsers |->
                        EncodeBlockedUser(yf.BlockedUsers[i])]]>>]

\* The entries under a key of the mapping, wherever the section stands; a
\* key that is absent gives the empty list.
Section(f, key) ==
    IF \E i \in DOMAIN f.sections : f.sections[i].key = key
    THEN f.sections[CHOOSE i \in DOMAIN f.sections : f.sections[i].key = key].items
    ELSE <<>>

\* yaml.NewDecoder(f).Decode(&yf): an empty file (io.EOF) and text that is no
\* YAML are errors.
Decode(f) ==
    IF f.kind # "mapping"
    THEN [yf |-> Nil, err |-> ErrDecoding]
    ELSE [yf |-> <<[Users |-> [i \in DOMAIN Section(f, "users") |->
                                 DecodeUser(Section(f, "users")[i])],
                    VLANs |-> [i \in DOMAIN Section(f, "vlans") |->
                                 DecodeVLAN(Section(f, "vlans")[i])],
                    BlockedUsers |-> [i \in DOMAIN Section(f, "blocked") |->
                                 DecodeBlockedUser(Section(f, "blocked")[i])]]>>,
          err |-> NoError]

\* The three loops of loadFile.
RECURSIVE CreateVLANs(_, _)
CreateVLANs(d, vlans) ==
    IF vlans = <<>>
    THEN [db |-> d, err |-> NoError]
    ELSE LET out == CreateVLAN(d, Head(vlans))
         IN  IF out.err # NoError THEN out ELSE CreateVLANs(out.db, Tail(vlans))

RECURSIVE CreateUsers(_, _)
CreateUsers(d, users) ==
    IF users = <<>>
    THEN [db |-> d, err |-> NoError]
    ELSE LET out == CreateUser(d, Head(users))
         IN  IF out.err # NoError THEN out ELSE CreateUsers(out.db, Tail(users))

RECURSIVE BlockUsers(_, _)
BlockUsers(d, blockedUsers) ==
    IF blockedUsers = <<>>
    THEN [db |-> d, err |-> NoError]
    ELSE LET out == BlockUser(d, Head(blockedUsers).Username)
         IN  IF out.err # NoError THEN out ELSE BlockUsers(out.db, Tail(blockedUsers))

\* loadFile: the file is decoded and a new MemoryDatabase takes the VLANs,
\* then the Devices, then the blocklist; the first error ends the load with
\* a nil database.
loadFile(f) ==
    LET dec == Decode(f)
    IN  IF dec.err # NoError
        THEN [db |-> Nil, err |-> dec.err]
        ELSE LET vlans == CreateVLANs(NewMemoryDatabase, dec.yf[1].VLANs)
                 users == CreateUsers(vlans.db, dec.yf[1].Users)
                 blocked == BlockUsers(users.db, dec.yf[1].BlockedUsers)
             IN  IF vlans.err # NoError THEN [db |-> Nil, err |-> vlans.err]
                 ELSE IF users.err # NoError THEN [db |-> Nil, err |-> users.err]
                 ELSE IF blocked.err # NoError THEN [db |-> Nil, err |-> blocked.err]
                 ELSE [db |-> <<blocked.db>>, err |-> NoError]

\* dumpFile once os.Create has succeeded: every file the encoder may write
\* (one for each order GetUsers, GetVLANs and GetBlockedUsers may return).
dumpFile(d) ==
    {Encode([Users |-> users, VLANs |-> vlans, BlockedUsers |-> blockedUsers]) :
        users \in GetUsers(d), vlans \in GetVLANs(d),
        blockedUsers \in GetBlockedUsers(d)}

(***************************************************************************)
(* RADIUS request pipeline                                                 *)
(***************************************************************************)
CodeAccessAccept == "Access-Accept"
CodeAccessReject == "Access-Reject"

\* An Access-Request: User-Name, User-Password and Calling-Station-Id.
Requests ==
    [UserName : Usernames, UserPassword : Usernames \cup {WrongPassword},
     CallingStationID : {MacAddress}]

\* r.Response(code): a new packet of that code without attributes.
Response(code) == [Code |-> code, Attributes |-> EmptyMap]

\* Faulty variant of setPacketVLAN: the tunnel fields are copied without defaults.
setPacketVLANNoDefaults(packet, vlan) ==
    [packet EXCEPT !.Attributes =
        MapPut(MapPut(MapPut(@, "Tunnel-Private-Group-ID", vlan.ID),
                      "Tunnel-Type", vlan.TunnelType),
               "Tunnel-Medium-Type", vlan.TunnelMediumType)]

\* setPacketVLAN: the three tunnel attributes (tag 0) of the VLAN.
setPacketVLAN(packet, vlan) ==
    LET tunnelType == IF vlan.TunnelType # 0 THEN vlan.TunnelType
                      ELSE vlanTunnelType
        tunnelMediumType == IF vlan.TunnelMediumType # 0 THEN vlan.TunnelMediumType
                            ELSE TunnelMediumType_Value_IEEE802
    IN  [packet EXCEPT !.Attributes =
            MapPut(MapPut(MapPut(@, "Tunnel-Private-Group-ID", vlan.ID),
                          "Tunnel-Type", tunnelType),
                   "Tunnel-Medium-Type", tunnelMediumType)]

\* BotServer.NotifyLoginAttempt: the newDeviceData of the notification.
NotifyLoginAttempt(username, password, macAddress) ==
    [Username |-> username, Password |-> password, MacAddress |-> macAddress]

\* Faulty variant of DefaultResponse: the prepared response is always a reject.
DefaultResponseReject(d) == Response(CodeAccessReject)

\* The response prepared before the decision ladder.
DefaultResponse(d) ==
    LET def == GetDefaultVLAN(d)
    IN  IF def.err # NoError
        THEN Response(CodeAccessReject)
        ELSE setPacketVLAN(Response(CodeAccessAccept), def.vlan[1])

\* Faulty variant of Handler: a wrong password of a known Device is notified too.
HandlerNotifyWrongPassword(d, r) ==
    LET username == r.UserName
        password == r.UserPassword
        macAddress == r.CallingStationID
        response == DefaultResponse(d)
        userBlocked == IsUserBlocked(d, username)
        user == GetUser(d, username)
    IN  IF userBlocked.err # NoError
        THEN [response |-> Response(CodeAccessReject), notifications |-> <<>>]
        ELSE IF userBlocked.blocked
        THEN [response |-> Response(CodeAccessReject), notifications |-> <<>>]
        ELSE IF user.err # NoError
        THEN [response |-> response,
              notifications |-> <<NotifyLoginAttempt(username, password, macAddress)>>]
        ELSE IF user.user[1].Password # password
        THEN [response |-> Response(CodeAccessReject),
              notifications |-> <<NotifyLoginAttempt(username, password, macAddress)>>]
        ELSE IF GetVLAN(d, user.user[1].VlanID).err # NoError
        THEN [response |-> response, notifications |-> <<>>]
        ELSE [response |-> setPacketVLAN(Response(CodeAccessAccept),
                                         GetVLAN(d, user.user[1].VlanID).vlan[1]),
              notifications |-> <<>>]

\* Faulty variant of Handler: on a wrong password the prepared response is kept.
HandlerKeepWrongPassword(d, r) ==
    LET username == r.UserName
        password == r.UserPassword
        macAddress == r.CallingStationID
        response == DefaultResponse(d)
        userBlocked == IsUserBlocked(d, username)
        user == GetUser(d, username)
    IN  IF userBlocked.err # NoError
        THEN [response |-> Response(CodeAccessReject), notifications |-> <<>>]
        ELSE IF userBlocked.blocked
        THEN [response |-> Response(CodeAccessReject), notifications |-> <<>>]
        ELSE IF user.err # NoError
        THEN [response |-> response,
              notifications |-> <<NotifyLoginAttempt(username, password, macAddress)>>]
        ELSE IF user.user[1].Password # password
        THEN [response |-> response, notifications |-> <<>>]
        ELSE IF GetVLAN(d, user.user[1].VlanID).err # NoError
        THEN [response |-> response, notifications |-> <<>>]
        ELSE [response |-> setPacketVLAN(Response(CodeAccessAccept),
                                         GetVLAN(d, user.user[1].VlanID).vlan[1]),
              notifications |-> <<>>]

\* Faulty variant of Handler: the accept branch keeps the prepared response
\* instead of setting the Device's VLAN.
HandlerKeepOnAccept(d, r) ==
    LET username == r.UserName
        password == r.UserPassword
        macAddress == r.CallingStationID
        response == DefaultResponse(d)
        userBlocked == IsUserBlocked(d, username)
        user == GetUser(d, username)
    IN  IF userBlocked.err # NoError
        THEN [response |-> Response(CodeAccessReject), notifications |-> <<>>]
        ELSE IF userBlocked.blocked
        THEN [response |-> Response(CodeAccessReject), notifications |-> <<>>]
        ELSE IF user.err # NoError
        THEN [response |-> response,
              notifications |-> <<NotifyLoginAttempt(username, password, macAddress)>>]
        ELSE IF user.user[1].Password # password
        THEN [response |-> Response(CodeAccessReject), notifications |-> <<>>]
        ELSE IF GetVLAN(d, user.user[1].VlanID).err # NoError
        THEN [response |-> response, notifications |-> <<>>]
        ELSE [response |-> response, notifications |-> <<>>]

\* Faulty variant of Handler: a failed VLAN lookup rejects.
HandlerRejectVLANError(d, r) ==
    LET username == r.UserName
        password == r.UserPassword
        macAddress == r.CallingStationID
        response == DefaultResponse(d)
        userBlocked == IsUserBlocked(d, username)
        user == GetUser(d, username)
    IN  IF userBlocked.err # NoError
        THEN [response |-> Response(CodeAccessReject), notifications |-> <<>>]
        ELSE IF userBlocked.blocked
        THEN [response |-> Response(CodeAccessReject), notifications |-> <<>>]
        ELSE IF user.err # NoError
        THEN [response |-> response,
              notifications |-> <<NotifyLoginAttempt(username, password, macAddress)>>]
        ELSE IF user.user[1].Password # password
        THEN [response |-> Response(CodeAccessReject), notifications |-> <<>>]
        ELSE IF GetVLAN(d, user.user[1].VlanID).err # NoError
        THEN [response |-> Response(CodeAccessReject), notifications |-> <<>>]
        ELSE [response |-> setPacketVLAN(Response(CodeAccessAccept),
                                         GetVLAN(d, user.user[1].VlanID).vlan[1]),
              notifications |-> <<>>]

\* Faulty variant of Handler: a blocked username gets the prepared response
\* with its code set to Access-Reject.
HandlerLeaksDefault(d, r) ==
    LET username == r.UserName
        password == r.UserPassword
        macAddress == r.CallingStationID
        response == DefaultResponse(d)
        userBlocked == IsUserBlocked(d, username)
        user == GetUser(d, username)
    IN  IF userBlocked.err # NoError
        THEN [response |-> Response(CodeAccessReject), notifications |-> <<>>]
        ELSE IF userBlocked.blocked
        THEN [response |-> [response EXCEPT !.Code = CodeAccessReject],
              notifications |-> <<>>]
        ELSE IF user.err # NoError
        THEN [response |-> response,
              notifications |-> <<NotifyLoginAttempt(username, password, macAddress)>>]
        ELSE IF user.user[1].Password # password
        THEN [response |-> Response(CodeAccessReject), notifications |-> <<>>]
        ELSE IF GetVLAN(d, user.user[1].VlanID).err # NoError
        THEN [response |-> response, notifications |-> <<>>]
        ELSE [response |-> setPacketVLAN(Response(CodeAccessAccept),
                                         GetVLAN(d, user.user[1].VlanID).vlan[1]),
              notifications |-> <<>>]

\* The handler of StartServer: the response it writes and the calls of
\* NotifyLoginAttempt it makes, in order.
Handler(d, r) ==
    LET username == r.UserName
        password == r.UserPassword
        macAddress == r.CallingStationID
        response == DefaultResponse(d)
        userBlocked == IsUserBlocked(d, username)
        user == GetUser(d, username)
    IN  IF userBlocked.err # NoError
        THEN [response |-> Response(CodeAccessReject), notifications |-> <<>>]
        ELSE IF userBlocked.blocked
        THEN [response |-> Response(CodeAccessReject), notifications |-> <<>>]
        ELSE IF user.err # NoError
        THEN [response |-> response,
              notifications |-> <<NotifyLoginAttempt(username, password, macAddress)>>]
        ELSE IF user.user[1].Password # password
        THEN [response |-> Response(CodeAccessReject), notifications |-> <<>>]
        ELSE IF GetVLAN(d, user.user[1].VlanID).err # NoError
        THEN [response |-> response, notifications |-> <<>>]
        ELSE [response |-> setPacketVLAN(Response(CodeAccessAccept),
                                         GetVLAN(d, user.user[1].VlanID).vlan[1]),
              notifications |-> <<>>]

(***************************************************************************)
(* lru.Cache: the correlation cache.  queue is the list, front first, of   *)
(* the entries; cache maps a key to its element of the list, and an        *)
(* element is named by the key of its entry.                               *)
(***************************************************************************)
NewLRUCache(capacity) ==
    [capacity |-> capacity, cache |-> EmptyMap, queue |-> <<>>]

\* The place in the list of the element the map holds for key.
Element(c, key) ==
    CHOOSE i \in DOMAIN c.queue : c.queue[i].key = c.cache[key]

\* list.MoveToFront
MoveToFront(queue, i) ==
    <<queue[i]>> \o SubSeq(queue, 1, i - 1) \o SubSeq(queue, i + 1, Len(queue))

\* Faulty variant of Get: the entry found is not moved to the front.
GetNoPromote(c, key) ==
    IF key \in DOMAIN c.cache
    THEN [c |-> c, value |-> <<c.queue[Element(c, key)].value>>, ok |-> TRUE]
    ELSE [c |-> c, value |-> Nil, ok |-> FALSE]

\* Cache.Get: the cache it leaves, the value (<<v>>, or the zero value) and
\* whether the key was found.
Get(c, key) ==
    IF key \in DOMAIN c.cache
    THEN [c |-> [c EXCEPT !.queue = MoveToFront(@, Element(c, key))],
          value |-> <<c.queue[Element(c, key)].value>>, ok |-> TRUE]
    ELSE [c |-> c, value |-> Nil, ok |-> FALSE]

\* Cache.Set: the cache it leaves.
Set(c, key, value) ==
    IF key \in DOMAIN c.cache
    THEN [c EXCEPT !.queue =
            <<[key |-> key, value |-> value]>>
            \o Tail(MoveToFront(@, Element(c, key)))]
    ELSE LET queue == <<[key |-> key, value |-> value]>> \o c.queue
             cache == MapPut(c.cache, key, key)
             oldest == queue[Len(queue)]
         IN  IF Len(queue) > c.capacity
             THEN [c EXCEPT !.queue = SubSeq(queue, 1, Len(queue) - 1),
                            !.cache = MapDelete(cache, oldest.key)]
             ELSE [c EXCEPT !.queue = queue, !.cache = cache]

(***************************************************************************)
(* State machine                                                           *)
(***************************************************************************)
\* The watcher before any event: no timer, no reload.
NoWatcher ==
    [now |-> 0, sent |-> 0, last |-> 0, queue |-> 0, debounceTimer |-> 0,
     timers |-> <<>>, reloads |-> 0, fresh |-> FALSE]

Idle == ret = <<>> /\ handled = <<>>

\* The bot before any notification, no registry call or RADIUS handler in
\* flight, the supervisor not started.
Elsewhere ==
    /\ lruCache = NewLRUCache(1)
    /\ trace = <<>>
    /\ newDeviceCache = NewLRUCache(newDeviceDataCacheSize)
    /\ editDeviceCache = NewLRUCache(editDeviceDataCacheSize)
    /\ chat = <<>>
    /\ ids = 0
    /\ callers = <<>>
    /\ radius = <<>>
    /\ serve = <<>>

Init ==
    /\ memory = NewMemoryDatabase
    /\ ret = <<>>
    /\ handled = <<>>
    /\ call = <<>>
    /\ file = EmptyFile
    /\ bot = <<>>
    /\ reloader = [armed |-> FALSE, loaded |-> <<>>]
    /\ watcher = NoWatcher
    /\ Elsewhere

\* A registry call: the registry becomes the one the call leaves and the
\* caller gets the error.  Where the calls are traced, call keeps the argument
\* and the registry the call started from until the caller has the error.
Call(op, arg, out, traced) ==
    /\ Idle
    /\ memory' = out.db
    /\ ret' = <<[op |-> op, err |-> out.err]>>
    /\ call' = IF traced THEN <<[arg |-> arg, before |-> memory]>> ELSE <<>>
    /\ UNCHANGED <<handled, aside>>

CreateVLANCall(inputs, traced) ==
    \E v \in inputs : Call("CreateVLAN", v, CreateVLAN(memory, v), traced)
UpdateVLANCall(inputs, traced) ==
    \E v \in inputs : Call("UpdateVLAN", v, UpdateVLAN(memory, v), traced)
DeleteVLANCall(traced) ==
    \E id \in VlanIDs : Call("DeleteVLAN", id, DeleteVLAN(memory, id), traced)
CreateUserCall(traced) ==
    \E u \in UserInputs : Call("CreateUser", u, CreateUser(memory, u), traced)
UpdateUserCall(traced) ==
    \E u \in UserInputs : Call("UpdateUser", u, UpdateUser(memory, u), traced)
DeleteUserCall(traced) ==
    \E n \in Usernames : Call("DeleteUser", n, DeleteUser(memory, n), traced)
BlockUserCall(traced) ==
    \E n \in Usernames : Call("BlockUser", n, BlockUser(memory, n), traced)
UnblockUserCall(traced) ==
    \E n \in Usernames : \E vlans \in GetVLANs(memory) :
        Call("UnblockUser", n, UnblockUser(memory, n, vlans), traced)

\* The caller takes the returned error.
Return ==
    /\ ret # <<>>
    /\ ret' = <<>>
    /\ call' = <<>>
    /\ UNCHANGED <<memory, handled, aside>>

NextRegistry ==
    \/ CreateVLANCall(RegistryVLANs, TRUE)
    \/ UpdateVLANCall(RegistryVLANs, TRUE)
    \/ DeleteVLANCall(TRUE)
    \/ CreateUserCall(TRUE)
    \/ UpdateUserCall(TRUE)
    \/ DeleteUserCall(TRUE)
    \/ BlockUserCall(TRUE)
    \/ UnblockUserCall(TRUE)
    \/ Return

\* Every sequence of calls of the Database interface on a new registry.
SpecRegistry == Init /\ [][NextRegistry]_vars

\* The server handles one Access-Request and writes the response.
HandleRequest ==
    \E r \in Requests :
        /\ Idle
        /\ handled' = <<[request |-> r,
                         response |-> Handler(memory, r).response,
                         notifications |-> Handler(memory, r).notifications]>>
        /\ UNCHANGED <<memory, ret, call, aside>>

\* The response has left on the wire.
Deliver ==
    /\ handled # <<>>
    /\ handled' = <<>>
    /\ UNCHANGED <<memory, ret, call, aside>>

\* The program: loadFile builds the registry with CreateVLAN, CreateUser and
\* BlockUser, the bot calls CreateUser, UpdateUser, DeleteUser, BlockUser and
\* UnblockUser, and the RADIUS server handles requests.  UpdateVLAN and
\* DeleteVLAN have no caller in the program.
Next ==
    \/ CreateVLANCall(VLAN, FALSE)
    \/ CreateUserCall(FALSE)
    \/ UpdateUserCall(FALSE)
    \/ DeleteUserCall(FALSE)
    \/ BlockUserCall(FALSE)
    \/ UnblockUserCall(FALSE)
    \/ Return
    \/ HandleRequest
    \/ Deliver

Spec == Init /\ [][Next]_vars

(***************************************************************************)
(* Properties of the RADIUS request pipeline.                              *)
(*                                                                         *)
(* While `handled` holds a request and its response, `memory` is the       *)
(* registry the handler has read.                                          *)
(***************************************************************************)
Req == handled[1].request
Resp == handled[1].response
Notified == handled[1].notifications

Blocked(username) == username \in DOMAIN memory.blockedUsers
Known(username) == username \in DOMAIN memory.users
Device(username) == memory.users[username]

\* The VLANs of the registry that are flagged default.
DefaultVLANs == {v \in Range(memory.vlans) : v.Default}

\* The tunnel attributes an Access-Accept with VLAN v has to carry.
AttributesOf(v) ==
    [a \in {"Tunnel-Private-Group-ID", "Tunnel-Type", "Tunnel-Medium-Type"} |->
        CASE a = "Tunnel-Private-Group-ID" -> v.ID
          [] a = "Tunnel-Type" -> IF v.TunnelType = 0 THEN 13 ELSE v.TunnelType
          [] a = "Tunnel-Medium-Type" ->
                IF v.TunnelMediumType = 0 THEN 6 ELSE v.TunnelMediumType]

IsReject(p) == p.Code = "Access-Reject" /\ DOMAIN p.Attributes = {}
IsAcceptWith(p, v) == p.Code = "Access-Accept" /\ p.Attributes = AttributesOf(v)

\* The default response: an accept with the default VLAN if the registry has
\* one, else a reject.
IsDefaultResponse(p) ==
    IF DefaultVLANs # {}
    THEN \E v \in DefaultVLANs : IsAcceptWith(p, v)
    ELSE IsReject(p)

\* C1: a request of a blocked username is answered Access-Reject and no
\* notification is emitted, whatever the Devices, the password and the
\* default VLAN are.
C1_BlockedRejected ==
    (handled # <<>> /\ Blocked(Req.UserName)) =>
        (Resp.Code = "Access-Reject" /\ Notified = <<>>)

\* A blocked username that has a Device with the password of the request,
\* in a registry with a default VLAN, was rejected.
C1_Witness ==
    /\ handled # <<>>
    /\ Blocked(Req.UserName)
    /\ Known(Req.UserName)
    /\ Device(Req.UserName).Password = Req.UserPassword
    /\ DefaultVLANs # {}
    /\ Resp.Code = "Access-Reject"

\* C2: a request of a username that is not blocked and has no Device gets
\* the default response: Access-Accept with the attributes of the default
\* VLAN if there is one, else Access-Reject.
C2_UnknownGetsDefault ==
    (handled # <<>> /\ ~Blocked(Req.UserName) /\ ~Known(Req.UserName)) =>
        IsDefaultResponse(Resp)

\* An unknown username was accepted onto the default VLAN.
C2_Witness ==
    /\ handled # <<>>
    /\ ~Blocked(Req.UserName)
    /\ ~Known(Req.UserName)
    /\ DefaultVLANs # {}
    /\ Resp.Code = "Access-Accept"

\* C3: NotifyLoginAttempt(username, password, macAddress) is called exactly
\* once for a request if the username is not blocked and has no Device, and
\* not at all otherwise.
C3_NotifiedIffUnknown ==
    handled # <<>> =>
        IF ~Blocked(Req.UserName) /\ ~Known(Req.UserName)
        THEN Notified = <<[Username |-> Req.UserName,
                           Password |-> Req.UserPassword,
                           MacAddress |-> Req.CallingStationID]>>
        ELSE Notified = <<>>

\* An unknown username was notified although the request was rejected for
\* want of a default VLAN.
C3_Witness ==
    /\ handled # <<>>
    /\ ~Blocked(Req.UserName)
    /\ ~Known(Req.UserName)
    /\ DefaultVLANs = {}
    /\ Resp.Code = "Access-Reject"
    /\ Len(Notified) = 1

\* C4: a request of a known, non-blocked Device with a password other than
\* the stored one is answered Access-Reject, also when a default VLAN exists.
C4_WrongPasswordRejected ==
    (/\ handled # <<>>
     /\ ~Blocked(Req.UserName)
     /\ Known(Req.UserName)
     /\ Device(Req.UserName).Password # Req.UserPassword) =>
        IsReject(Resp)

\* A wrong password was rejected in a registry with a default VLAN.
C4_Witness ==
    /\ handled # <<>>
    /\ ~Blocked(Req.UserName)
    /\ Known(Req.UserName)
    /\ Device(Req.UserName).Password # Req.UserPassword
    /\ DefaultVLANs # {}
    /\ Resp.Code = "Access-Reject"

\* C5: a request of a known, non-blocked Device with the stored password
\* whose vlanId names a VLAN of the registry is answered Access-Accept with
\* Tunnel-Private-Group-ID equal to the Device's vlanId.
C5_KnownGetsOwnVLAN ==
    (/\ handled # <<>>
     /\ ~Blocked(Req.UserName)
     /\ Known(Req.UserName)
     /\ Device(Req.UserName).Password = Req.UserPassword
     /\ Device(Req.UserName).VlanID \in DOMAIN memory.vlans) =>
        /\ Resp.Code = "Access-Accept"
        /\ "Tunnel-Private-Group-ID" \in DOMAIN Resp.Attributes
        /\ Resp.Attributes["Tunnel-Private-Group-ID"] = Device(Req.UserName).VlanID

\* A Device on a VLAN other than the default VLAN was accepted onto its own.
C5_Witness ==
    /\ handled # <<>>
    /\ ~Blocked(Req.UserName)
    /\ Known(Req.UserName)
    /\ Device(Req.UserName).Password = Req.UserPassword
    /\ Device(Req.UserName).VlanID \in DOMAIN memory.vlans
    /\ \E v \in DefaultVLANs : v.ID # Device(Req.UserName).VlanID
    /\ Resp.Code = "Access-Accept"

\* C6: a request of a known, non-blocked Device with the stored password
\* whose vlanId names no VLAN of the registry gets the default response, and
\* no notification is emitted.
C6_MissingVLANGetsDefault ==
    (/\ handled # <<>>
     /\ ~Blocked(Req.UserName)
     /\ Known(Req.UserName)
     /\ Device(Req.UserName).Password = Req.UserPassword
     /\ Device(Req.UserName).VlanID \notin DOMAIN memory.vlans) =>
        (IsDefaultResponse(Resp) /\ Notified = <<>>)

\* A Device whose VLAN is missing was accepted onto the default VLAN.
C6_Witness ==
    /\ handled # <<>>
    /\ ~Blocked(Req.UserName)
    /\ Known(Req.UserName)
    /\ Device(Req.UserName).Password = Req.UserPassword
    /\ Device(Req.UserName).VlanID \notin DOMAIN memory.vlans
    /\ DefaultVLANs # {}
    /\ Resp.Code = "Access-Accept"

\* C7: an Access-Accept carries the attributes of a VLAN v of the registry:
\* Tunnel-Private-Group-ID = v.id, Tunnel-Type = v.tunnelType or 13 if that
\* is 0, Tunnel-Medium-Type = v.tunnelMediumType or 6 if that is 0.
C7_AcceptAttributes ==
    (handled # <<>> /\ Resp.Code = "Access-Accept") =>
        /\ DOMAIN Resp.Attributes =
              {"Tunnel-Private-Group-ID", "Tunnel-Type", "Tunnel-Medium-Type"}
        /\ Resp.Attributes["Tunnel-Private-Group-ID"] \in DOMAIN memory.vlans
        /\ LET v == memory.vlans[Resp.Attributes["Tunnel-Private-Group-ID"]]
           IN  /\ Resp.Attributes["Tunnel-Type"] =
                     IF v.TunnelType # 0 THEN v.TunnelType ELSE 13
               /\ Resp.Attributes["Tunnel-Medium-Type"] =
                     IF v.TunnelMediumType # 0 THEN v.TunnelMediumType ELSE 6

\* An accept with a VLAN whose tunnel fields are 0 carries 13 and 6.
C7_Witness ==
    /\ handled # <<>>
    /\ Resp.Code = "Access-Accept"
    /\ \E v \in Range(memory.vlans) :
          /\ v.ID = Resp.Attributes["Tunnel-Private-Group-ID"]
          /\ v.TunnelType = 0
          /\ v.TunnelMediumType = 0
    /\ Resp.Attributes["Tunnel-Type"] = 13
    /\ Resp.Attributes["Tunnel-Medium-Type"] = 6

(***************************************************************************)
(* YAMLDatabase: the MemoryDatabase behind the file.                       *)
(***************************************************************************)
\* The Devices written through the YAMLDatabase.
FileUsers == {u \in User : u.Password = u.Username}

\* A new registry file and the YAMLDatabase opened on it.
InitYAML ==
    /\ memory = NewMemoryDatabase
    /\ ret = <<>>
    /\ handled = <<>>
    /\ call = <<>>
    /\ file \in dumpFile(NewMemoryDatabase)
    /\ bot = <<>>
    /\ reloader = [armed |-> FALSE, loaded |-> <<>>]
    /\ watcher = NoWatcher
    /\ Elsewhere

\* Faulty variant of YAMLCall: the mutation is not followed by save().
YAMLCallNoSave(op, arg, out) ==
    /\ Idle
    /\ memory' = out.db
    /\ call' = <<[arg |-> arg, before |-> memory]>>
    /\ file' = file
    /\ ret' = <<[op |-> op, err |-> out.err]>>
    /\ UNCHANGED <<beyond, watcher, handled, goroutines>>

\* A mutating method of the YAMLDatabase: the call on d.memory and, when it
\* returned nil, save().  dumpFile fails in os.Create, which leaves the file,
\* or in the encoder, after os.Create has truncated the file; otherwise the
\* file is the encoding of d.memory.  A save fails only while the file still
\* holds the registry as it was before the call: one failed save at a time.
YAMLCall(op, arg, out) ==
    /\ Idle
    /\ memory' = out.db
    /\ call' = <<[arg |-> arg, before |-> memory]>>
    /\ IF out.err # NoError
       THEN /\ file' = file
            /\ ret' = <<[op |-> op, err |-> out.err]>>
       ELSE \/ /\ file \in dumpFile(memory)
               /\ file' = file
               /\ ret' = <<[op |-> op, err |-> ErrCreating]>>
            \/ /\ file \in dumpFile(memory)
               /\ file' = EmptyFile
               /\ ret' = <<[op |-> op, err |-> ErrEncoding]>>
            \/ /\ file' \in dumpFile(out.db)
               /\ ret' = <<[op |-> op, err |-> NoError]>>
    /\ UNCHANGED <<beyond, watcher, handled, goroutines>>

YAMLCreateVLAN == \E v \in RegistryVLANs : YAMLCall("CreateVLAN", v, CreateVLAN(memory, v))
\* The model updates and deletes the VLANs that are not the default VLAN.
OrdinaryVLANs == {v \in RegistryVLANs : ~v.Default /\ GetDefaultVLAN(memory).vlan # <<v>>
                                          /\ (v.ID \in DOMAIN memory.vlans => ~memory.vlans[v.ID].Default)}
YAMLUpdateVLAN ==
    \E v \in OrdinaryVLANs : YAMLCall("UpdateVLAN", v, UpdateVLAN(memory, v))
YAMLDeleteVLAN ==
    \E v \in OrdinaryVLANs : YAMLCall("DeleteVLAN", v.ID, DeleteVLAN(memory, v.ID))
YAMLCreateUser == \E u \in FileUsers : YAMLCall("CreateUser", u, CreateUser(memory, u))
YAMLUpdateUser == \E u \in FileUsers : YAMLCall("UpdateUser", u, UpdateUser(memory, u))
YAMLDeleteUser == \E n \in Usernames : YAMLCall("DeleteUser", n, DeleteUser(memory, n))
YAMLBlockUser == \E n \in Usernames : YAMLCall("BlockUser", n, BlockUser(memory, n))
YAMLUnblockUser ==
    \E n \in Usernames : \E vlans \in GetVLANs(memory) :
        YAMLCall("UnblockUser", n, UnblockUser(memory, n, vlans))

\* Faulty variant of load: when loadFile fails d.memory is assigned all the
\* same and the registry is lost.
loadPartial ==
    /\ Idle
    /\ memory' = IF loadFile(file).err = NoError THEN loadFile(file).db[1]
                 ELSE NewMemoryDatabase
    /\ ret' = <<[op |-> "load", err |-> loadFile(file).err]>>
    /\ call' = <<[arg |-> file, before |-> memory]>>
    /\ UNCHANGED <<beyond, watcher, handled, file, goroutines>>

\* YAMLDatabase.load: d.memory becomes the database loadFile built; on an
\* error d.memory is not assigned.
load ==
    /\ Idle
    /\ memory' = IF loadFile(file).err = NoError THEN loadFile(file).db[1]
                 ELSE memory
    /\ ret' = <<[op |-> "load", err |-> loadFile(file).err]>>
    /\ call' = <<[arg |-> file, before |-> memory]>>
    /\ UNCHANGED <<beyond, watcher, handled, file, goroutines>>

NextYAML ==
    \/ YAMLCreateVLAN
    \/ YAMLUpdateVLAN
    \/ YAMLDeleteVLAN
    \/ YAMLCreateUser
    \/ YAMLUpdateUser
    \/ YAMLDeleteUser
    \/ YAMLBlockUser
    \/ YAMLUnblockUser
    \/ load
    \/ Return

\* Every sequence of calls of the YAMLDatabase, one at a time, and of reloads
\* between them.
SpecYAML == InitYAML /\ [][NextYAML]_vars

\* The file with one more entry at the end of a section.
AppendTo(f, key, e) ==
    [f EXCEPT !.sections =
        [i \in DOMAIN f.sections |->
            IF f.sections[i].key = key
            THEN [f.sections[i] EXCEPT !.items = Append(@, e)]
            ELSE f.sections[i]]]

\* The file with its first two sections in the other order.
SwapSections(f) ==
    [f EXCEPT !.sections =
        [i \in DOMAIN f.sections |->
            IF i = 1 THEN f.sections[2] ELSE IF i = 2 THEN f.sections[1]
            ELSE f.sections[i]]]

\* What an administrator may leave in the file with an editor: the file of
\* the registry with one more VLAN, Device or blocked username (of any id,
\* username and vlan, whether or not the registry has them), its sections
\* in either order, or a file that is empty or no YAML.
EditedFiles(d) ==
    LET added ==
            UNION {{f}
                   \cup {AppendTo(f, "vlans", EncodeVLAN(v)) : v \in RegistryVLANs}
                   \cup {AppendTo(f, "users", EncodeUser(u)) : u \in FileUsers}
                   \cup {AppendTo(f, "blocked", EncodeBlockedUser([Username |-> n])) :
                            n \in Usernames} : f \in dumpFile(d)}
    IN  added \cup {SwapSections(f) : f \in added} \cup {EmptyFile, GarbageFile}

\* The file is written from outside the program.
ExternalWrite ==
    /\ Idle
    /\ file' \in EditedFiles(memory)
    /\ file' # file
    /\ UNCHANGED <<beyond, watcher, memory, ret, handled, call, goroutines>>

NextLoad ==
    \/ ExternalWrite
    \/ load
    \/ Return

\* The registry file edited by hand and reloaded.
SpecLoad == InitYAML /\ [][NextLoad]_vars

(***************************************************************************)
(* A bot handler and the reload of the watcher, statement by statement.    *)
(* Nothing in YAMLDatabase or MemoryDatabase holds a lock, so the          *)
(* statements of the two goroutines interleave freely.                     *)
(***************************************************************************)
\* The registry file an administrator wrote with one VLAN, opened.
InitBot ==
    /\ memory \in {CreateVLAN(NewMemoryDatabase, v).db : v \in RegistryVLANs}
    /\ file \in dumpFile(memory)
    /\ ret = <<>>
    /\ handled = <<>>
    /\ call = <<>>
    /\ bot = <<>>
    /\ reloader = [armed |-> FALSE, loaded |-> <<>>]
    /\ watcher = NoWatcher
    /\ Elsewhere

\* A write event on the file: the watcher (re)arms the debounce timer.
Armed == [reloader EXCEPT !.armed = TRUE]

\* The select-vlan handler starts: db.GetVLAN of the VLAN of the button.
\* bot.at names the statement the handler runs next.
SelectVLAN ==
    \E u \in FileUsers :
        /\ bot = <<>>
        /\ GetVLAN(memory, u.VlanID).err = NoError
        /\ bot' = <<[at |-> "CreateUser", user |-> u]>>
        /\ UNCHANGED <<beyond, watcher, memory, ret, handled, call, file, reloader>>

\* YAMLDatabase.CreateUser, first statement: d.memory.CreateUser.  On an
\* error the handler returns it.
BotCreateUser ==
    /\ bot # <<>>
    /\ bot[1].at = "CreateUser"
    /\ memory' = CreateUser(memory, bot[1].user).db
    /\ bot' = IF CreateUser(memory, bot[1].user).err = NoError
              THEN <<[bot[1] EXCEPT !.at = "os.Create"]>>
              ELSE <<>>
    /\ UNCHANGED <<beyond, watcher, ret, handled, call, file, reloader>>

\* save(), dumpFile: os.Create truncates the file.
BotCreateFile ==
    /\ bot # <<>>
    /\ bot[1].at = "os.Create"
    /\ file' = EmptyFile
    /\ reloader' = Armed
    /\ bot' = <<[bot[1] EXCEPT !.at = "Encode"]>>
    /\ UNCHANGED <<beyond, watcher, memory, ret, handled, call>>

\* save(), dumpFile: d.memory is read and encoded into the file.
BotEncode ==
    /\ bot # <<>>
    /\ bot[1].at = "Encode"
    /\ file' \in dumpFile(memory)
    /\ reloader' = Armed
    /\ bot' = <<[bot[1] EXCEPT !.at = "Edit"]>>
    /\ UNCHANGED <<beyond, watcher, memory, ret, handled, call>>

\* c.Edit: the chat message takes its success form.
BotEdit ==
    /\ bot # <<>>
    /\ bot[1].at = "Edit"
    /\ bot' = <<[bot[1] EXCEPT !.at = "return"]>>
    /\ UNCHANGED <<beyond, watcher, memory, ret, handled, call, file, reloader>>

\* The handler returns nil.
BotReturn ==
    /\ bot # <<>>
    /\ bot[1].at = "return"
    /\ bot' = <<>>
    /\ UNCHANGED <<beyond, watcher, memory, ret, handled, call, file, reloader>>

\* The file is written from outside the program before a handler starts (a
\* write during the handler is left out: the handler then races with the
\* reload alone).
BotExternalWrite ==
    /\ bot = <<>>
    /\ file' \in EditedFiles(memory)
    /\ file' # file
    /\ reloader' = Armed
    /\ UNCHANGED <<beyond, watcher, memory, ret, handled, call, bot>>

\* The debounce timer fires and its callback runs loadFile: the file is read
\* and a database is built from it; an error is logged.
ReloadRead ==
    /\ reloader.armed
    /\ reloader.loaded = <<>>
    /\ reloader' = [armed |-> FALSE, loaded |-> loadFile(file).db]
    /\ UNCHANGED <<beyond, watcher, memory, ret, handled, call, file, bot>>

\* load, last statement: d.memory = db.
ReloadAssign ==
    /\ reloader.loaded # <<>>
    /\ memory' = reloader.loaded[1]
    /\ reloader' = [reloader EXCEPT !.loaded = <<>>]
    /\ UNCHANGED <<beyond, watcher, ret, handled, call, file, bot>>

NextBot ==
    \/ SelectVLAN
    \/ BotCreateUser
    \/ BotCreateFile
    \/ BotEncode
    \/ BotEdit
    \/ BotReturn
    \/ BotExternalWrite
    \/ ReloadRead
    \/ ReloadAssign

SpecBot == InitBot /\ [][NextBot]_vars

(***************************************************************************)
(* The watcher loop and its debounce timers.  Time is counted in ticks of  *)
(* 50 ms.  watcher holds the clock (now), the Write events fsnotify has    *)
(* seen (sent, the time of the last one) and those the loop has not taken  *)
(* from watcher.Events yet (queue), the loop's variable debounceTimer      *)
(* (0 is nil, i is the i-th timer), the timers made by time.AfterFunc and  *)
(* the calls of load (reloads; fresh: one of them began after the last     *)
(* event).                                                                 *)
(***************************************************************************)
TimeoutTicks == ReloadTimeout \div 50

\* The watcher of an opened YAMLDatabase before any write to the file.
InitWatch ==
    /\ memory = NewMemoryDatabase
    /\ ret = <<>>
    /\ handled = <<>>
    /\ call = <<>>
    /\ file \in dumpFile(NewMemoryDatabase)
    /\ bot = <<>>
    /\ reloader = [armed |-> FALSE, loaded |-> <<>>]
    /\ watcher = NoWatcher
    /\ Elsewhere

\* The file is written: a Write event less than ReloadTimeout after the
\* previous one waits in watcher.Events.
WriteEvent ==
    /\ watcher.sent < MaxEvents
    /\ watcher.sent > 0 => watcher.now - watcher.last < TimeoutTicks
    /\ watcher' = [watcher EXCEPT !.sent = @ + 1, !.last = watcher.now,
                                  !.queue = @ + 1, !.fresh = FALSE]
    /\ UNCHANGED <<memory, ret, handled, call, file, goroutines, beyond>>

\* t.Stop(): a timer that has not fired will not fire; one that has fired is
\* left to its callback.
Stop(timers, i) ==
    IF i # 0 /\ timers[i].state = "pending"
    THEN [timers EXCEPT ![i].state = "stopped"]
    ELSE timers

\* One turn of the loop of watch on a Write event: the timer debounceTimer
\* points to is stopped, and debounceTimer becomes a new timer of
\* ReloadTimeout from now.
Receive ==
    /\ watcher.queue > 0
    /\ watcher' = [watcher EXCEPT
            !.queue = @ - 1,
            !.timers = Append(Stop(@, watcher.debounceTimer),
                              [deadline |-> watcher.now + TimeoutTicks,
                               state |-> "pending"]),
            !.debounceTimer = Len(watcher.timers) + 1]
    /\ UNCHANGED <<memory, ret, handled, call, file, goroutines, beyond>>

\* A timer whose time has come fires: its callback starts in a goroutine of
\* its own.
Fire ==
    \E i \in DOMAIN watcher.timers :
        /\ watcher.timers[i].state = "pending"
        /\ watcher.now >= watcher.timers[i].deadline
        /\ watcher' = [watcher EXCEPT !.timers[i].state = "fired"]
        /\ UNCHANGED <<memory, ret, handled, call, file, goroutines, beyond>>

\* The callback, first statement: debounceTimer = nil.
CallbackClear ==
    \E i \in DOMAIN watcher.timers :
        /\ watcher.timers[i].state = "fired"
        /\ watcher' = [watcher EXCEPT !.timers[i].state = "cleared",
                                      !.debounceTimer = 0]
        /\ UNCHANGED <<memory, ret, handled, call, file, goroutines, beyond>>

\* The callback, second statement: d.load(), a reload attempt.
CallbackLoad ==
    \E i \in DOMAIN watcher.timers :
        /\ watcher.timers[i].state = "cleared"
        /\ watcher' = [watcher EXCEPT !.timers[i].state = "done",
                                      !.reloads = @ + 1, !.fresh = TRUE]
        /\ memory' = IF loadFile(file).err = NoError THEN loadFile(file).db[1]
                     ELSE memory
        /\ UNCHANGED <<ret, handled, call, file, goroutines, beyond>>

\* 50 ms pass.  No goroutine is bound to run within a tick: the scheduler
\* gives no deadline to the loop or to a callback.
Tick ==
    /\ watcher.now < MaxTime
    /\ watcher' = [watcher EXCEPT !.now = @ + 1]
    /\ UNCHANGED <<memory, ret, handled, call, file, goroutines, beyond>>

NextWatch ==
    \/ WriteEvent
    \/ Receive
    \/ Fire
    \/ CallbackClear
    \/ CallbackLoad
    \/ Tick

SpecWatch == InitWatch /\ [][NextWatch]_vars

(***************************************************************************)
(* A correlation cache on its own: a Cache of some capacity under any      *)
(* sequence of Set and Get.  trace holds the calls made so far, each Get   *)
(* with what it returned.                                                  *)
(***************************************************************************)
Keys == 1..(MaxCapacity + 1)
Values == {"a", "b"}

InitLRU ==
    /\ memory = NewMemoryDatabase
    /\ ret = <<>>
    /\ handled = <<>>
    /\ call = <<>>
    /\ file = EmptyFile
    /\ bot = <<>>
    /\ reloader = [armed |-> FALSE, loaded |-> <<>>]
    /\ watcher = NoWatcher
    /\ lruCache \in {NewLRUCache(capacity) : capacity \in 1..MaxCapacity}
    /\ trace = <<>>
    /\ newDeviceCache = NewLRUCache(newDeviceDataCacheSize)
    /\ editDeviceCache = NewLRUCache(editDeviceDataCacheSize)
    /\ chat = <<>>
    /\ ids = 0
    /\ callers = <<>>
    /\ radius = <<>>
    /\ serve = <<>>

LRUSet ==
    \E key \in Keys : \E value \in Values :
        /\ Len(trace) < MaxOps
        /\ lruCache' = Set(lruCache, key, value)
        /\ trace' = Append(trace, [op |-> "Set", key |-> key,
                                   value |-> <<value>>, ok |-> TRUE])
        /\ UNCHANGED <<memory, ret, handled, call, file, goroutines, watcher,
                       newDeviceCache, editDeviceCache, chat, ids, callers,
                       radius, serve>>

LRUGet ==
    \E key \in Keys :
        /\ Len(trace) < MaxOps
        /\ lruCache' = Get(lruCache, key).c
        /\ trace' = Append(trace, [op |-> "Get", key |-> key,
                                   value |-> Get(lruCache, key).value,
                                   ok |-> Get(lruCache, key).ok])
        /\ UNCHANGED <<memory, ret, handled, call, file, goroutines, watcher,
                       newDeviceCache, editDeviceCache, chat, ids, callers,
                       radius, serve>>

NextLRU ==
    \/ LRUSet
    \/ LRUGet

SpecLRU == InitLRU /\ [][NextLRU]_vars

(***************************************************************************)
(* Two handlers call YAMLDatabase.CreateUser at the same time (telebot     *)
(* runs every handler in a goroutine of its own), statement by statement.  *)
(* callers[g].at names the statement goroutine g runs next.                *)
(***************************************************************************)
Goroutines == {1, 2}

InitCallers ==
    /\ memory \in {CreateVLAN(NewMemoryDatabase, v).db : v \in RegistryVLANs}
    /\ file \in dumpFile(memory)
    /\ ret = <<>>
    /\ handled = <<>>
    /\ call = <<>>
    /\ bot = <<>>
    /\ reloader = [armed |-> FALSE, loaded |-> <<>>]
    /\ watcher = NoWatcher
    /\ lruCache = NewLRUCache(1)
    /\ trace = <<>>
    /\ newDeviceCache = NewLRUCache(newDeviceDataCacheSize)
    /\ editDeviceCache = NewLRUCache(editDeviceDataCacheSize)
    /\ chat = <<>>
    /\ ids = 0
    /\ callers = [g \in Goroutines |-> [at |-> "idle"]]
    /\ radius = <<>>
    /\ serve = <<>>

\* What a step of a caller leaves alone, the registry and the file apart.
callerAside ==
    <<ret, handled, call, goroutines, watcher, lruCache, trace, newDeviceCache,
      editDeviceCache, chat, ids, radius, serve>>

\* db.CreateUser(u) is called.
CallerCreateUser(g) ==
    \E u \in UserInputs :
        /\ callers[g].at = "idle"
        /\ callers' = [callers EXCEPT ![g] = [at |-> "lookup", user |-> u]]
        /\ UNCHANGED <<memory, file, callerAside>>

\* MemoryDatabase.CreateUser: if _, ok := d.users[u.Username]; ok
CallerLookup(g) ==
    /\ callers[g].at = "lookup"
    /\ callers' = [callers EXCEPT ![g] =
            IF callers[g].user.Username \in DOMAIN memory.users
            THEN [at |-> "returned", user |-> callers[g].user,
                  err |-> ErrUserAlreadyExists]
            ELSE [at |-> "GetVLAN", user |-> callers[g].user]]
    /\ UNCHANGED <<memory, file, callerAside>>

\* MemoryDatabase.CreateUser: d.GetVLAN(u.VlanID)
CallerGetVLAN(g) ==
    /\ callers[g].at = "GetVLAN"
    /\ callers' = [callers EXCEPT ![g] =
            IF GetVLAN(memory, callers[g].user.VlanID).err # NoError
            THEN [at |-> "returned", user |-> callers[g].user,
                  err |-> GetVLAN(memory, callers[g].user.VlanID).err]
            ELSE [at |-> "store", user |-> callers[g].user]]
    /\ UNCHANGED <<memory, file, callerAside>>

\* MemoryDatabase.CreateUser: d.users[u.Username] = &u
CallerStore(g) ==
    /\ callers[g].at = "store"
    /\ memory' = [memory EXCEPT !.users =
                    MapPut(@, callers[g].user.Username, callers[g].user)]
    /\ callers' = [callers EXCEPT ![g].at = "save"]
    /\ UNCHANGED <<file, callerAside>>

\* YAMLDatabase.CreateUser: save(), and nil is returned.
CallerSave(g) ==
    /\ callers[g].at = "save"
    /\ file' \in dumpFile(memory)
    /\ callers' = [callers EXCEPT ![g] =
            [at |-> "returned", user |-> callers[g].user, err |-> NoError]]
    /\ UNCHANGED <<memory, callerAside>>

\* The users map is written by one goroutine while another reads or writes
\* it: the Go runtime may stop the process with "fatal error: concurrent map
\* writes" (or "concurrent map read and map write").
Fatal ==
    /\ \E g, h \in Goroutines :
          /\ g # h
          /\ callers[g].at = "store"
          /\ callers[h].at \in {"lookup", "store"}
    /\ callers' = [g \in Goroutines |-> [at |-> "fatal"]]
    /\ UNCHANGED <<memory, file, callerAside>>

NextCallers ==
    \/ \E g \in Goroutines : CallerCreateUser(g)
    \/ \E g \in Goroutines : CallerLookup(g)
    \/ \E g \in Goroutines : CallerGetVLAN(g)
    \/ \E g \in Goroutines : CallerStore(g)
    \/ \E g \in Goroutines : CallerSave(g)
    \/ Fatal

SpecCallers == InitCallers /\ [][NextCallers]_vars

(***************************************************************************)
(* The RADIUS handler, call by call, and a reload of the registry file.    *)
(* Every call of the handler on the YAMLDatabase reads d.memory anew;      *)
(* load assigns d.memory from the goroutine of the timer.  radius holds    *)
(* the handler in flight: the call it makes next (at), what it has decided *)
(* so far, the registry d.memory was when it started (old) and whether the *)
(* file was written since.                                                 *)
(***************************************************************************)
\* The registries loadFile builds: CreateVLAN for the VLANs of the file,
\* then CreateUser for its Devices, then BlockUser for its blocked names.
RECURSIVE WithVLANs(_, _)
WithVLANs(S, n) ==
    IF n = 0 THEN S
    ELSE WithVLANs(S \cup {CreateVLAN(d, v).db : d \in S, v \in RegistryVLANs}, n - 1)

RECURSIVE WithUsers(_, _)
WithUsers(S, n) ==
    IF n = 0 THEN S
    ELSE WithUsers(S \cup {CreateUser(d, u).db : d \in S, u \in FileUsers}, n - 1)

RECURSIVE WithBlocked(_, _)
WithBlocked(S, n) ==
    IF n = 0 THEN S
    ELSE WithBlocked(S \cup {BlockUser(d, name).db : d \in S, name \in Usernames}, n - 1)

LoadableRegistries ==
    WithBlocked(WithUsers(WithVLANs({NewMemoryDatabase}, MaxVLANs), MaxUsers),
                MaxUsers)

InitRadius ==
    /\ memory \in LoadableRegistries
    /\ file \in dumpFile(memory)
    /\ ret = <<>>
    /\ handled = <<>>
    /\ call = <<>>
    /\ bot = <<>>
    /\ reloader = [armed |-> FALSE, loaded |-> <<>>]
    /\ watcher = NoWatcher
    /\ Elsewhere

\* What a step of the RADIUS handler leaves alone.
radiusAside ==
    <<memory, ret, handled, call, file, goroutines, watcher, lruCache, trace,
      newDeviceCache, editDeviceCache, chat, ids, callers, serve>>

\* The handler starts on a request while no reload is under way:
\* db.GetDefaultVLAN() and the response prepared from it.
RadiusGetDefaultVLAN ==
    \E r \in Requests :
        /\ radius = <<>>
        /\ ~reloader.armed
        /\ reloader.loaded = <<>>
        /\ radius' = <<[at |-> "IsUserBlocked", request |-> r,
                        response |-> DefaultResponse(memory),
                        notifications |-> <<>>, user |-> Nil,
                        old |-> memory, written |-> FALSE]>>
        /\ UNCHANGED radiusAside

\* db.IsUserBlocked(username): a blocked username is rejected.
RadiusIsUserBlocked ==
    /\ radius # <<>>
    /\ radius[1].at = "IsUserBlocked"
    /\ LET userBlocked == IsUserBlocked(memory, radius[1].request.UserName)
       IN  radius' =
             IF userBlocked.err # NoError \/ userBlocked.blocked
             THEN <<[radius[1] EXCEPT !.at = "Write",
                                      !.response = Response(CodeAccessReject)]>>
             ELSE <<[radius[1] EXCEPT !.at = "GetUser"]>>
    /\ UNCHANGED radiusAside

\* db.GetUser(username): an unknown username is notified and the response
\* kept; a wrong password is rejected.
RadiusGetUser ==
    /\ radius # <<>>
    /\ radius[1].at = "GetUser"
    /\ LET r == radius[1].request
           user == GetUser(memory, r.UserName)
       IN  radius' =
             IF user.err # NoError
             THEN <<[radius[1] EXCEPT
                        !.at = "Write",
                        !.notifications =
                            <<NotifyLoginAttempt(r.UserName, r.UserPassword,
                                                 r.CallingStationID)>>]>>
             ELSE IF user.user[1].Password # r.UserPassword
             THEN <<[radius[1] EXCEPT !.at = "Write",
                                      !.response = Response(CodeAccessReject)]>>
             ELSE <<[radius[1] EXCEPT !.at = "GetVLAN", !.user = user.user]>>
    /\ UNCHANGED radiusAside

\* db.GetVLAN(user.VlanID): on an error the response is kept, else it is an
\* accept with the VLAN of the Device.
RadiusGetVLAN ==
    /\ radius # <<>>
    /\ radius[1].at = "GetVLAN"
    /\ LET vlan == GetVLAN(memory, radius[1].user[1].VlanID)
       IN  radius' =
             IF vlan.err # NoError
             THEN <<[radius[1] EXCEPT !.at = "Write"]>>
             ELSE <<[radius[1] EXCEPT
                        !.at = "Write",
                        !.response = setPacketVLAN(Response(CodeAccessAccept),
                                                   vlan.vlan[1])]>>
    /\ UNCHANGED radiusAside

\* w.Write(response): the handler is over.
RadiusWrite ==
    /\ radius # <<>>
    /\ radius[1].at = "Write"
    /\ radius' = <<>>
    /\ UNCHANGED radiusAside

\* An administrator saves the registry file, once while the handler runs:
\* any file loadFile accepts.  The watcher arms the reload.
ExternalRewrite ==
    /\ radius # <<>>
    /\ ~radius[1].written
    /\ file' \in UNION {dumpFile(d) : d \in LoadableRegistries}
    /\ file' # file
    /\ reloader' = Armed
    /\ radius' = <<[radius[1] EXCEPT !.written = TRUE]>>
    /\ UNCHANGED <<memory, ret, handled, call, bot, watcher, lruCache, trace,
                   newDeviceCache, editDeviceCache, chat, ids, callers, serve>>

NextRadius ==
    \/ RadiusGetDefaultVLAN
    \/ RadiusIsUserBlocked
    \/ RadiusGetUser
    \/ RadiusGetVLAN
    \/ RadiusWrite
    \/ ExternalRewrite
    \/ ReloadRead
    \/ ReloadAssign

SpecRadius == InitRadius /\ [][NextRadius]_vars

(***************************************************************************)
(* The Telegram bot: the new-device flow.                                  *)
(*                                                                         *)
(* chat is the chat of the operator: its messages, each with its text (the *)
(* form of the text and what is filled in), its inline keyboard (markup,   *)
(* the buttons in order, each with its unique name and its data) and the   *)
(* buttons it has carried so far (shown).  createRandomID is modelled by a *)
(* counter: ids is the number of ids drawn, and the ids are 1, 2, ...      *)
(* (32 random bytes never repeat).  The chat platform accepts every Send   *)
(* and Edit.  A handler runs as one step; the registry calls it makes go   *)
(* through the YAMLDatabase.                                               *)
(***************************************************************************)
btnAddUnique == "add"
btnSelectVLANUnique == "select-vlan"
btnBackAddUnique == "back-add"
btnIgnoreUnique == "ignore"
btnBlocklistUnique == "blocklist"

ErrFailedToReadData == "failed to read data from message"

\* m.Data(text, unique, data).Inline()
Button(unique, data) == [unique |-> unique, data |-> data]

\* What a mutating method of the YAMLDatabase may leave and return: out is
\* the outcome of the call on d.memory; when it is nil, save() follows and
\* fails in os.Create, fails in the encoder, or writes the file (one failed
\* save at a time, as in YAMLCall).
Saved(d, f, out) ==
    IF out.err # NoError
    THEN {[db |-> out.db, file |-> f, err |-> out.err]}
    ELSE {[db |-> out.db, file |-> g, err |-> NoError] : g \in dumpFile(out.db)}
         \cup (IF f \in dumpFile(d)
               THEN {[db |-> out.db, file |-> f, err |-> ErrCreating],
                     [db |-> out.db, file |-> EmptyFile, err |-> ErrEncoding]}
               ELSE {})

\* createNotifyMessage: the message of a notification whose buttons carry
\* dataID (the cache entry is set by the caller of this operator).
createNotifyMessage(data, dataID) ==
    [text |-> [form |-> "New Device Detected", Username |-> data.Username,
               MacAddress |-> data.MacAddress],
     markup |-> <<Button(btnAddUnique, dataID), Button(btnIgnoreUnique, dataID),
                  Button(btnBlocklistUnique, dataID)>>]

\* bot.Send: a new message at the end of the chat.
Send(c, msg) ==
    Append(c, [text |-> msg.text, markup |-> msg.markup,
               shown |-> Range(msg.markup)])

\* c.Edit: the message takes the text and the keyboard given.
Edit(c, m, msg) ==
    [c EXCEPT ![m] = [text |-> msg.text, markup |-> msg.markup,
                      shown |-> @.shown \cup Range(msg.markup)]]

\* The outcome of a bot handler: what it leaves and the error it returns.
\* call holds the message and the data of the callback.
BotHandler(op, m, data, db, f, ndc, edc, c, n, err) ==
    /\ Idle
    /\ memory' = db
    /\ file' = f
    /\ newDeviceCache' = ndc
    /\ editDeviceCache' = edc
    /\ chat' = c
    /\ ids' = n
    /\ ret' = <<[op |-> op, err |-> err]>>
    /\ call' = <<[arg |-> [message |-> m, data |-> data]]>>
    /\ UNCHANGED <<handled, goroutines, watcher, lruCache, trace, callers,
                   radius, serve>>

\* Faulty variant of FailedToReadData: the handler takes the keyboard off the
\* message and returns nil.
FailedSilently(op, m, data) ==
    BotHandler(op, m, data, memory, file, newDeviceCache, editDeviceCache,
               [chat EXCEPT ![m].markup = <<>>], ids, NoError)

\* A handler that returns ErrFailedToReadData: the token is not in its cache.
FailedToReadData(op, m, data) ==
    BotHandler(op, m, data, memory, file, newDeviceCache, editDeviceCache,
               chat, ids, ErrFailedToReadData)

\* The requests of the devices of the model: the password of a device is its
\* username, or it is another one.
FlowRequests == {r \in Requests : r.UserPassword \in {r.UserName, WrongPassword}}

\* Faulty variant of HandleRequestNotify: a username whose request is
\* rejected is put on the blocklist.
HandleRequestBlocks ==
    \E r \in FlowRequests :
        LET h == Handler(memory, r)
        IN  /\ Idle
            /\ handled' = <<[request |-> r, response |-> h.response,
                             notifications |-> <<>>]>>
            /\ memory' = IF h.response.Code = CodeAccessReject
                         THEN BlockUser(memory, r.UserName).db ELSE memory
            /\ UNCHANGED <<ret, call, file, goroutines, watcher, beyond>>

\* The server handles one Access-Request; NotifyLoginAttempt sets a new
\* cache entry and sends the notification to the chat.
HandleRequestNotify ==
    \E r \in FlowRequests :
        LET h == Handler(memory, r)
            dataID == ids + 1
        IN  /\ Idle
            /\ handled' = <<[request |-> r, response |-> h.response,
                             notifications |-> h.notifications]>>
            /\ IF h.notifications = <<>>
               THEN UNCHANGED <<newDeviceCache, chat, ids>>
               ELSE /\ ids < MaxIDs
                    /\ Len(chat) < MaxMessages
                    /\ ids' = dataID
                    /\ newDeviceCache' = Set(newDeviceCache, dataID, h.notifications[1])
                    /\ chat' = Send(chat, createNotifyMessage(h.notifications[1], dataID))
            /\ UNCHANGED <<memory, ret, call, file, goroutines, watcher, lruCache,
                           trace, editDeviceCache, callers, radius, serve>>

\* The cache after Set of the data of each VLAN button, in order: the i-th
\* VLAN gets the id first + i.
RECURSIVE SetSelected(_, _, _, _, _)
SetSelected(c, data, vlans, first, i) ==
    IF i > Len(vlans) THEN c
    ELSE SetSelected(Set(c, first + i,
                         [Username |-> data.Username, Password |-> data.Password,
                          VlanID |-> vlans[i].ID, MacAddress |-> data.MacAddress]),
                     data, vlans, first, i + 1)

\* The "Add" button: the VLAN selection menu, one button for each VLAN and a
\* back button that carries the data of the callback.
OnAdd(m, dataID) ==
    LET got == Get(newDeviceCache, dataID)
        data == got.value[1]
    IN  IF ~got.ok THEN FailedToReadData(btnAddUnique, m, dataID)
        ELSE \E vlans \in GetVLANs(memory) :
                /\ ids + Len(vlans) <= MaxIDs
                /\ BotHandler(btnAddUnique, m, dataID, memory, file,
                      SetSelected(got.c, data, vlans, ids, 1), editDeviceCache,
                      Edit(chat, m,
                           [text |-> [form |-> "Add to Network",
                                      Username |-> data.Username],
                            markup |-> [i \in 1..Len(vlans) |->
                                           Button(btnSelectVLANUnique, ids + i)]
                                       \o <<Button(btnBackAddUnique, dataID)>>]),
                      ids + Len(vlans), NoError)

\* The selection of a VLAN: db.GetVLAN, db.CreateUser and the success message.
OnSelectVLAN(m, dataID) ==
    LET got == Get(newDeviceCache, dataID)
        data == got.value[1]
        vlan == GetVLAN(memory, data.VlanID)
        user == [Username |-> data.Username, Password |-> data.Password,
                 VlanID |-> vlan.vlan[1].ID, Description |-> ""]
    IN  IF ~got.ok THEN FailedToReadData(btnSelectVLANUnique, m, dataID)
        ELSE IF vlan.err # NoError
        THEN BotHandler(btnSelectVLANUnique, m, dataID, memory, file, got.c,
                        editDeviceCache, chat, ids, vlan.err)
        ELSE \E o \in Saved(memory, file, CreateUser(memory, user)) :
                BotHandler(btnSelectVLANUnique, m, dataID, o.db, o.file, got.c,
                    editDeviceCache,
                    IF o.err # NoError THEN chat
                    ELSE Edit(chat, m,
                              [text |-> [form |-> "Success", Username |-> data.Username,
                                         Name |-> vlan.vlan[1].Name],
                               markup |-> <<>>]),
                    ids, o.err)

\* The back button of the VLAN selection menu: a new notification message
\* of the same data, under a new id.
OnBackAdd(m, dataID) ==
    LET got == Get(newDeviceCache, dataID)
        data == got.value[1]
    IN  IF ~got.ok THEN FailedToReadData(btnBackAddUnique, m, dataID)
        ELSE /\ ids < MaxIDs
             /\ BotHandler(btnBackAddUnique, m, dataID, memory, file,
                           Set(got.c, ids + 1, data), editDeviceCache,
                           Edit(chat, m, createNotifyMessage(data, ids + 1)),
                           ids + 1, NoError)

\* Faulty variant of OnIgnore: the username is put on the blocklist as well.
OnIgnoreBlocks(m, dataID) ==
    LET got == Get(newDeviceCache, dataID)
        data == got.value[1]
    IN  IF ~got.ok THEN FailedToReadData(btnIgnoreUnique, m, dataID)
        ELSE \E o \in Saved(memory, file, BlockUser(memory, data.Username)) :
                BotHandler(btnIgnoreUnique, m, dataID, o.db, o.file, got.c,
                    editDeviceCache,
                    Edit(chat, m,
                         [text |-> [form |-> "Request Ignored",
                                    Username |-> data.Username],
                          markup |-> <<>>]),
                    ids, NoError)

\* The "Ignore" button.
OnIgnore(m, dataID) ==
    LET got == Get(newDeviceCache, dataID)
        data == got.value[1]
    IN  IF ~got.ok THEN FailedToReadData(btnIgnoreUnique, m, dataID)
        ELSE BotHandler(btnIgnoreUnique, m, dataID, memory, file, got.c,
                        editDeviceCache,
                        Edit(chat, m,
                             [text |-> [form |-> "Request Ignored",
                                        Username |-> data.Username],
                              markup |-> <<>>]),
                        ids, NoError)

\* The "Block" button: db.BlockUser and the block message.
OnBlocklist(m, dataID) ==
    LET got == Get(newDeviceCache, dataID)
        data == got.value[1]
    IN  IF ~got.ok THEN FailedToReadData(btnBlocklistUnique, m, dataID)
        ELSE \E o \in Saved(memory, file, BlockUser(memory, data.Username)) :
                BotHandler(btnBlocklistUnique, m, dataID, o.db, o.file, got.c,
                    editDeviceCache,
                    IF o.err # NoError THEN chat
                    ELSE Edit(chat, m,
                              [text |-> [form |-> "User Blocked",
                                         Username |-> data.Username],
                               markup |-> <<>>]),
                    ids, o.err)

(***************************************************************************)
(* The Telegram bot: the edit-device flow (the /edit command and its       *)
(* inline buttons; the cache of the flow is editDeviceCache).              *)
(***************************************************************************)
btnEditChangeVLANUnique == "edit-change-vlan"
btnEditBlockUnique == "edit-block"
btnEditUnblockUnique == "edit-unblock"
btnEditDeleteUnique == "edit-delete"
btnEditBackUnique == "edit-back"
btnEditSelectVLANUnique == "edit-select-vlan"

\* database.User{}
ZeroUser == [Username |-> "", Password |-> "", VlanID |-> "", Description |-> ""]

\* GetUserByDescription: a Device of that description, whichever the walk of
\* the map meets first.
GetUserByDescription(d, description) ==
    IF \E n \in DOMAIN d.users : d.users[n].Description = description
    THEN {[user |-> <<d.users[n]>>, err |-> NoError] :
             n \in {k \in DOMAIN d.users : d.users[k].Description = description}}
    ELSE {[user |-> Nil, err |-> ErrUserNotFound]}

\* buildEditMessage: the message, the cache and the number of ids drawn
\* afterwards, and the error.
buildEditMessage(d, c, n, username) ==
    LET blocked == IsUserBlocked(d, username).blocked
        got == GetUser(d, username)
        user == IF got.err = NoError THEN got.user[1] ELSE ZeroUser
        vlan == GetVLAN(d, user.VlanID)
        dataID == n + 1
    IN  IF got.err # NoError /\ ~blocked
        THEN [msg |-> [text |-> [form |-> "User Not Found", Username |-> username],
                       markup |-> <<>>],
              c |-> c, ids |-> n, err |-> NoError]
        ELSE IF vlan.err # NoError /\ user.VlanID # ""
        THEN [msg |-> Nil, c |-> c, ids |-> n, err |-> vlan.err]
        ELSE [msg |-> [text |-> [form |-> "Edit Device", blocked |-> blocked,
                                 Name |-> user.Description, Username |-> username,
                                 VLAN |-> IF vlan.err = NoError
                                          THEN vlan.vlan[1].Name ELSE ""],
                       markup |-> IF blocked
                                  THEN <<Button(btnEditUnblockUnique, dataID),
                                         Button(btnEditDeleteUnique, dataID)>>
                                  ELSE <<Button(btnEditChangeVLANUnique, dataID),
                                         Button(btnEditBlockUnique, dataID),
                                         Button(btnEditDeleteUnique, dataID)>>],
              c |-> Set(c, dataID, [Username |-> username, VlanID |-> ""]),
              ids |-> dataID, err |-> NoError]

\* The /edit command with the username of a Device as its payload.
OnEditCommand ==
    \E payload \in Usernames : \E byDescription \in GetUserByDescription(memory, payload) :
        LET username == IF byDescription.err = NoError
                        THEN byDescription.user[1].Username ELSE payload
            built == buildEditMessage(memory, editDeviceCache, ids, username)
        IN  /\ built.ids <= MaxIDs
            /\ Len(chat) < MaxMessages
            /\ BotHandler("/edit", Len(chat) + 1, payload, memory, file,
                          newDeviceCache,
                          IF built.err # NoError THEN editDeviceCache ELSE built.c,
                          IF built.err # NoError THEN chat ELSE Send(chat, built.msg),
                          built.ids, built.err)

\* The cache after Set of the data of each VLAN button of the edit flow.
RECURSIVE SetEditSelected(_, _, _, _, _)
SetEditSelected(c, data, vlans, first, i) ==
    IF i > Len(vlans) THEN c
    ELSE SetEditSelected(Set(c, first + i,
                             [Username |-> data.Username, VlanID |-> vlans[i].ID]),
                         data, vlans, first, i + 1)

\* A handler of the edit flow that ends with buildEditMessage and c.Edit,
\* after a registry call that left db and f and returned err.
EditRebuild(op, m, dataID, c, data, db, f, err) ==
    LET built == buildEditMessage(db, c, ids, data.Username)
    IN  IF err # NoError
        THEN BotHandler(op, m, dataID, db, f, newDeviceCache, c, chat, ids, err)
        ELSE /\ built.ids <= MaxIDs
             /\ BotHandler(op, m, dataID, db, f, newDeviceCache,
                           IF built.err # NoError THEN c ELSE built.c,
                           IF built.err # NoError THEN chat
                           ELSE Edit(chat, m, built.msg),
                           built.ids, built.err)

\* The "Change VLAN" button: buildVLANSelectMenu and a back button.
OnEditChangeVLAN(m, dataID) ==
    LET got == Get(editDeviceCache, dataID)
        data == got.value[1]
    IN  IF ~got.ok THEN FailedToReadData(btnEditChangeVLANUnique, m, dataID)
        ELSE \E vlans \in GetVLANs(memory) :
                /\ ids + Len(vlans) <= MaxIDs
                /\ BotHandler(btnEditChangeVLANUnique, m, dataID, memory, file,
                      newDeviceCache, SetEditSelected(got.c, data, vlans, ids, 1),
                      Edit(chat, m,
                           [text |-> [form |-> "Select VLAN",
                                      Username |-> data.Username],
                            markup |-> [i \in 1..Len(vlans) |->
                                           Button(btnEditSelectVLANUnique, ids + i)]
                                       \o <<Button(btnEditBackUnique, dataID)>>]),
                      ids + Len(vlans), NoError)

\* The "Block" button of the edit flow.
OnEditBlock(m, dataID) ==
    LET got == Get(editDeviceCache, dataID)
        data == got.value[1]
    IN  IF ~got.ok THEN FailedToReadData(btnEditBlockUnique, m, dataID)
        ELSE \E o \in Saved(memory, file, BlockUser(memory, data.Username)) :
                EditRebuild(btnEditBlockUnique, m, dataID, got.c, data,
                            o.db, o.file, o.err)

\* The "Unblock" button.
OnEditUnblock(m, dataID) ==
    LET got == Get(editDeviceCache, dataID)
        data == got.value[1]
    IN  IF ~got.ok THEN FailedToReadData(btnEditUnblockUnique, m, dataID)
        ELSE \E vlans \in GetVLANs(memory) :
             \E o \in Saved(memory, file, UnblockUser(memory, data.Username, vlans)) :
                EditRebuild(btnEditUnblockUnique, m, dataID, got.c, data,
                            o.db, o.file, o.err)

\* The "Delete" button.
OnEditDelete(m, dataID) ==
    LET got == Get(editDeviceCache, dataID)
        data == got.value[1]
    IN  IF ~got.ok THEN FailedToReadData(btnEditDeleteUnique, m, dataID)
        ELSE \E o \in Saved(memory, file, DeleteUser(memory, data.Username)) :
                BotHandler(btnEditDeleteUnique, m, dataID, o.db, o.file,
                    newDeviceCache, got.c,
                    IF o.err # NoError THEN chat
                    ELSE Edit(chat, m,
                              [text |-> [form |-> "User Deleted",
                                         Username |-> data.Username],
                               markup |-> <<>>]),
                    ids, o.err)

\* The back button of the VLAN selection menu of the edit flow.
OnEditBack(m, dataID) ==
    LET got == Get(editDeviceCache, dataID)
        data == got.value[1]
    IN  IF ~got.ok THEN FailedToReadData(btnEditBackUnique, m, dataID)
        ELSE EditRebuild(btnEditBackUnique, m, dataID, got.c, data,
                         memory, file, NoError)

\* Faulty variant of OnEditSelectVLAN: the new VLAN is written to every
\* Device of the registry.
OnEditSelectVLANAll(m, dataID) ==
    LET got == Get(editDeviceCache, dataID)
        data == got.value[1]
        vlan == GetVLAN(memory, data.VlanID)
        user == GetUser(memory, data.Username)
        all == [memory EXCEPT !.users =
                   [n \in DOMAIN @ |-> [@[n] EXCEPT !.VlanID = data.VlanID]]]
    IN  IF ~got.ok THEN FailedToReadData(btnEditSelectVLANUnique, m, dataID)
        ELSE IF vlan.err # NoError
        THEN BotHandler(btnEditSelectVLANUnique, m, dataID, memory, file,
                        newDeviceCache, got.c, chat, ids, vlan.err)
        ELSE IF user.err # NoError
        THEN BotHandler(btnEditSelectVLANUnique, m, dataID, memory, file,
                        newDeviceCache, got.c, chat, ids, user.err)
        ELSE \E o \in Saved(memory, file, [db |-> all, err |-> NoError]) :
                EditRebuild(btnEditSelectVLANUnique, m, dataID, got.c, data,
                            o.db, o.file, o.err)

\* The selection of a VLAN in the edit flow: db.GetVLAN, db.GetUser and
\* db.UpdateUser with the new VLAN.
OnEditSelectVLAN(m, dataID) ==
    LET got == Get(editDeviceCache, dataID)
        data == got.value[1]
        vlan == GetVLAN(memory, data.VlanID)
        user == GetUser(memory, data.Username)
    IN  IF ~got.ok THEN FailedToReadData(btnEditSelectVLANUnique, m, dataID)
        ELSE IF vlan.err # NoError
        THEN BotHandler(btnEditSelectVLANUnique, m, dataID, memory, file,
                        newDeviceCache, got.c, chat, ids, vlan.err)
        ELSE IF user.err # NoError
        THEN BotHandler(btnEditSelectVLANUnique, m, dataID, memory, file,
                        newDeviceCache, got.c, chat, ids, user.err)
        ELSE \E o \in Saved(memory, file,
                            UpdateUser(memory, [user.user[1] EXCEPT
                                                   !.VlanID = vlan.vlan[1].ID])) :
                EditRebuild(btnEditSelectVLANUnique, m, dataID, got.c, data,
                            o.db, o.file, o.err)

(***************************************************************************)
(* Replies: bot.Handle(tele.OnText) runs the text handler of the new-device *)
(* flow and then that of the edit flow.  original.Text is the text of the  *)
(* message as the chat shows it, without the Markdown marks.               *)
(***************************************************************************)
\* The names an operator gives a device.
ReplyTexts == {"tv"}

\* The regular expression `\s+(.*?) has been added to the`: it matches the
\* success message of the new-device flow alone.
extractUsernameFromNewDeviceMessage(text) ==
    IF text.form = "Success" THEN text.Username ELSE ""

\* The regular expression `Username: (.*?)\n`: the edit message has such a
\* line, and the notification of a new device has one too.
extractUsernameFromEditDeviceMessage(text) ==
    IF text.form \in {"Edit Device", "New Device Detected"}
    THEN text.Username ELSE ""

\* The end of both text handlers: db.UpdateUser with the description and the
\* message that the name is saved.
SaveName(d, f, c, user, t) ==
    {[db |-> o.db, file |-> o.file, err |-> o.err,
      c |-> IF o.err # NoError THEN c
            ELSE Send(c, [text |-> [form |-> "Saved the name", Name |-> t,
                                    Username |-> user.Username],
                          markup |-> <<>>])] :
        o \in Saved(d, f, UpdateUser(d, [user EXCEPT !.Description = t]))}

\* The text handler of the new-device flow: what it may leave and return.
NewDeviceReply(d, f, c, original, t) ==
    LET username == extractUsernameFromNewDeviceMessage(original.text)
        got == GetUser(d, username)
    IN  IF username = "" \/ got.err # NoError
        THEN {[db |-> d, file |-> f, c |-> c, err |-> NoError]}
        ELSE SaveName(d, f, c, got.user[1], t)

\* Faulty variant of BlockAgain: the username is not blocked again.
NotBlockedAgain(d, f, c, username, t) ==
    IF GetUser(d, username).err # NoError
    THEN {[db |-> d, file |-> f, c |-> c, err |-> GetUser(d, username).err]}
    ELSE SaveName(d, f, c, GetUser(d, username).user[1], t)

\* The second half of the unblock-then-block cycle: db.BlockUser, db.GetUser
\* and the update, on the registry and the file UnblockUser left.
BlockAgain(d, f, c, username, t) ==
    UNION {IF o.err # NoError
           THEN {[db |-> o.db, file |-> o.file, c |-> c, err |-> o.err]}
           ELSE IF GetUser(o.db, username).err # NoError
           THEN {[db |-> o.db, file |-> o.file, c |-> c,
                  err |-> GetUser(o.db, username).err]}
           ELSE SaveName(o.db, o.file, c, GetUser(o.db, username).user[1], t) :
              o \in Saved(d, f, BlockUser(d, username))}

\* The text handler of the edit flow.
EditDeviceReply(d, f, c, original, t) ==
    LET username == extractUsernameFromEditDeviceMessage(original.text)
        got == GetUser(d, username)
    IN  IF username = ""
        THEN {[db |-> d, file |-> f, c |-> c, err |-> NoError]}
        ELSE IF got.err = NoError
        THEN SaveName(d, f, c, got.user[1], t)
        ELSE IF ~IsUserBlocked(d, username).blocked
        THEN {[db |-> d, file |-> f, c |-> c, err |-> NoError]}
        ELSE UNION {IF o.err # NoError
                    THEN {[db |-> o.db, file |-> o.file, c |-> c, err |-> o.err]}
                    ELSE BlockAgain(o.db, o.file, c, username, t) :
                       o \in UNION {Saved(d, f, UnblockUser(d, username, vlans)) :
                                       vlans \in GetVLANs(d)}}

\* A reply with text t to message m of the chat.
OnText ==
    \E m \in DOMAIN chat : \E t \in ReplyTexts :
    \E first \in NewDeviceReply(memory, file, chat, chat[m], t) :
        IF first.err # NoError
        THEN BotHandler("reply", m, t, first.db, first.file, newDeviceCache,
                        editDeviceCache, first.c, ids, first.err)
        ELSE \E o \in EditDeviceReply(first.db, first.file, first.c, chat[m], t) :
                /\ Len(o.c) <= MaxMessages
                /\ BotHandler("reply", m, t, o.db, o.file, newDeviceCache,
                              editDeviceCache, o.c, ids, o.err)

(***************************************************************************)
(* The bot and the RADIUS server over one registry.                        *)
(***************************************************************************)
\* bot.Handle: the handler registered for the unique name of a button.
Handle(unique, m, data) ==
    CASE unique = btnAddUnique -> OnAdd(m, data)
      [] unique = btnSelectVLANUnique -> OnSelectVLAN(m, data)
      [] unique = btnBackAddUnique -> OnBackAdd(m, data)
      [] unique = btnIgnoreUnique -> OnIgnore(m, data)
      [] unique = btnBlocklistUnique -> OnBlocklist(m, data)
      [] unique = btnEditChangeVLANUnique -> OnEditChangeVLAN(m, data)
      [] unique = btnEditBlockUnique -> OnEditBlock(m, data)
      [] unique = btnEditUnblockUnique -> OnEditUnblock(m, data)
      [] unique = btnEditDeleteUnique -> OnEditDelete(m, data)
      [] unique = btnEditBackUnique -> OnEditBack(m, data)
      [] unique = btnEditSelectVLANUnique -> OnEditSelectVLAN(m, data)

\* A callback query of a button the message carries.
Callback(unique) ==
    \E m \in DOMAIN chat : \E b \in Range(chat[m].markup) :
        /\ b.unique = unique
        /\ Handle(unique, m, b.data)

\* A callback query of a button the message carried before and carries no
\* more: the second of two taps, or the tap of another operator of the chat,
\* made before the edit of the message was seen.
LateCallback(unique) ==
    \E m \in DOMAIN chat : \E b \in chat[m].shown \ Range(chat[m].markup) :
        /\ b.unique = unique
        /\ Handle(unique, m, b.data)

\* The registry file an administrator wrote with the VLANs 1..MaxVLANs, the
\* first of them the default VLAN or none, opened by serve.
InitApproval ==
    /\ memory \in {d \in WithVLANs({NewMemoryDatabase}, MaxVLANs) :
                      /\ DOMAIN d.vlans = VlanIDs
                      /\ \A id \in VlanIDs : d.vlans[id].Default => id = "1"}
    /\ file \in dumpFile(memory)
    /\ ret = <<>>
    /\ handled = <<>>
    /\ call = <<>>
    /\ bot = <<>>
    /\ reloader = [armed |-> FALSE, loaded |-> <<>>]
    /\ watcher = NoWatcher
    /\ Elsewhere

NewDeviceFlow ==
    \/ Callback(btnAddUnique)
    \/ Callback(btnSelectVLANUnique)
    \/ Callback(btnBackAddUnique)
    \/ Callback(btnIgnoreUnique)
    \/ Callback(btnBlocklistUnique)

EditDeviceFlow ==
    \/ OnEditCommand
    \/ Callback(btnEditChangeVLANUnique)
    \/ Callback(btnEditBlockUnique)
    \/ Callback(btnEditUnblockUnique)
    \/ Callback(btnEditDeleteUnique)
    \/ Callback(btnEditBackUnique)
    \/ Callback(btnEditSelectVLANUnique)

NextApproval ==
    \/ HandleRequestNotify
    \/ Deliver
    \/ NewDeviceFlow
    \/ Return

\* The RADIUS server and the new-device flow of the bot, every callback
\* that of a button on display.
SpecApproval == InitApproval /\ [][NextApproval]_vars

\* The same registry file with the Devices an administrator wrote into it.
InitFlows ==
    /\ memory \in WithUsers({d \in WithVLANs({NewMemoryDatabase}, MaxVLANs) :
                                /\ DOMAIN d.vlans = VlanIDs
                                /\ \A id \in VlanIDs : d.vlans[id].Default => id = "1"},
                            MaxUsers)
    /\ file \in dumpFile(memory)
    /\ ret = <<>>
    /\ handled = <<>>
    /\ call = <<>>
    /\ bot = <<>>
    /\ reloader = [armed |-> FALSE, loaded |-> <<>>]
    /\ watcher = NoWatcher
    /\ Elsewhere

NextFlows ==
    \/ HandleRequestNotify
    \/ Deliver
    \/ NewDeviceFlow
    \/ EditDeviceFlow
    \/ Return

\* The RADIUS server and both flows of the bot.
SpecFlows == InitFlows /\ [][NextFlows]_vars

NextLate ==
    \/ NextApproval
    \/ LateCallback(btnAddUnique)
    \/ LateCallback(btnSelectVLANUnique)
    \/ LateCallback(btnBackAddUnique)
    \/ LateCallback(btnIgnoreUnique)
    \/ LateCallback(btnBlocklistUnique)

\* The new-device flow with the callbacks of buttons no longer on display.
SpecLate == InitApproval /\ [][NextLate]_vars

\* The registry loadFile builds from a file of n VLANs, the first of them
\* the default VLAN.
RECURSIVE ManyVLANs(_)
ManyVLANs(n) ==
    IF n = 0 THEN NewMemoryDatabase
    ELSE CreateVLAN(ManyVLANs(n - 1),
                    [ID |-> ToString(n), Name |-> "lan", Default |-> n = 1,
                     TunnelType |-> 0, TunnelMediumType |-> 0]).db

\* A registry file with as many VLANs as a correlation cache holds entries,
\* or fewer, and the Devices an administrator wrote into it.
InitSelector ==
    /\ memory \in WithUsers({ManyVLANs(n) : n \in 1..LargestCache}, MaxUsers)
    /\ file \in dumpFile(memory)
    /\ ret = <<>>
    /\ handled = <<>>
    /\ call = <<>>
    /\ bot = <<>>
    /\ reloader = [armed |-> FALSE, loaded |-> <<>>]
    /\ watcher = NoWatcher
    /\ Elsewhere

\* Both flows of the bot over a registry of many VLANs.
SpecSelector == InitSelector /\ [][NextFlows]_vars

\* A Device of the file that no command and no request of the model names.
OtherDevice ==
    [Username |-> "cam", Password |-> "cam", VlanID |-> "1", Description |-> ""]

\* A registry file an administrator wrote: the VLANs 1..MaxVLANs, the first
\* of them the default VLAN or none, the Device "cam", and for every
\* username of the model a Device on the first VLAN or an entry of the
\* blocklist without a Device.
RECURSIVE WithEntries(_, _)
WithEntries(S, n) ==
    IF n = 0 THEN S
    ELSE LET username == "dev" \o ToString(n)
         IN  WithEntries({CreateUser(d, [Username |-> username, Password |-> username,
                                         VlanID |-> "1", Description |-> ""]).db :
                             d \in S}
                         \cup {BlockUser(d, username).db : d \in S},
                         n - 1)

InitEdit ==
    /\ memory \in WithEntries({CreateUser(d, OtherDevice).db :
                                  d \in {e \in WithVLANs({NewMemoryDatabase}, MaxVLANs) :
                                            /\ DOMAIN e.vlans = VlanIDs
                                            /\ \A id \in VlanIDs :
                                                  e.vlans[id].Default => id = "1"}},
                              MaxUsers)
    /\ file \in dumpFile(memory)
    /\ ret = <<>>
    /\ handled = <<>>
    /\ call = <<>>
    /\ bot = <<>>
    /\ reloader = [armed |-> FALSE, loaded |-> <<>>]
    /\ watcher = NoWatcher
    /\ Elsewhere

NextPick ==
    \/ OnEditCommand
    \/ Callback(btnEditChangeVLANUnique)
    \/ Callback(btnEditSelectVLANUnique)
    \/ Callback(btnEditBackUnique)
    \/ Callback(btnEditDeleteUnique)
    \/ Return

\* The edit flow of an operator who changes VLANs and deletes Devices.
SpecPick == InitEdit /\ [][NextPick]_vars

NextReply ==
    \/ OnEditCommand
    \/ OnText
    \/ Callback(btnEditDeleteUnique)
    \/ Return

\* The edit flow of an operator who names and deletes Devices.
SpecReply == InitEdit /\ [][NextReply]_vars

(***************************************************************************)
(* The text handler of the edit flow call by call, beside the RADIUS       *)
(* server: the bot and the server are goroutines over one YAMLDatabase     *)
(* that holds no lock.  bot.at names the call the handler makes next,      *)
(* bot.user is the Device it has read, and bot.cycle tells that it went    *)
(* through UnblockUser and BlockUser.                                      *)
(***************************************************************************)
\* The reply arrives: db.GetUser and, if that fails, db.IsUserBlocked.  A
\* username that is neither a Device nor blocked ends the handler at once.
ReplyStart ==
    \E m \in DOMAIN chat : \E t \in ReplyTexts :
        LET username == extractUsernameFromEditDeviceMessage(chat[m].text)
            got == GetUser(memory, username)
        IN  /\ bot = <<>>
            /\ extractUsernameFromNewDeviceMessage(chat[m].text) = ""
            /\ username # ""
            /\ bot' = IF got.err = NoError
                      THEN <<[at |-> "UpdateUser", username |-> username,
                              user |-> got.user[1], text |-> t,
                              cycle |-> FALSE]>>
                      ELSE IF IsUserBlocked(memory, username).blocked
                      THEN <<[at |-> "UnblockUser", username |-> username,
                              user |-> ZeroUser, text |-> t, cycle |-> TRUE]>>
                      ELSE <<>>
            /\ UNCHANGED <<beyond, watcher, memory, ret, handled, call, file,
                           reloader>>

\* db.UnblockUser and its save; an error ends the handler.
ReplyUnblock ==
    /\ bot # <<>>
    /\ bot[1].at = "UnblockUser"
    /\ \E vlans \in GetVLANs(memory) :
       \E o \in Saved(memory, file, UnblockUser(memory, bot[1].username, vlans)) :
        /\ memory' = o.db
        /\ file' = o.file
        /\ bot' = IF o.err # NoError THEN <<>>
                  ELSE <<[bot[1] EXCEPT !.at = "BlockUser"]>>
        /\ UNCHANGED <<beyond, watcher, ret, handled, call, reloader>>

\* db.BlockUser and its save, and db.GetUser.
ReplyBlock ==
    /\ bot # <<>>
    /\ bot[1].at = "BlockUser"
    /\ \E o \in Saved(memory, file, BlockUser(memory, bot[1].username)) :
        /\ memory' = o.db
        /\ file' = o.file
        /\ bot' = IF o.err # NoError \/ GetUser(o.db, bot[1].username).err # NoError
                  THEN <<>>
                  ELSE <<[bot[1] EXCEPT !.at = "UpdateUser",
                                        !.user = GetUser(o.db, bot[1].username).user[1]]>>
        /\ UNCHANGED <<beyond, watcher, ret, handled, call, reloader>>

\* db.UpdateUser with the description, its save and c.Send; the handler
\* returns.
ReplyUpdate ==
    /\ bot # <<>>
    /\ bot[1].at = "UpdateUser"
    /\ \E o \in SaveName(memory, file, chat, bot[1].user, bot[1].text) :
        /\ Len(o.c) <= MaxMessages
        /\ memory' = o.db
        /\ file' = o.file
        /\ chat' = o.c
        /\ bot' = <<>>
        /\ UNCHANGED <<watcher, ret, handled, call, reloader, lruCache, trace,
                       newDeviceCache, editDeviceCache, ids, callers, radius,
                       serve>>

NextRename ==
    \/ OnEditCommand
    \/ Return
    \/ ReplyStart
    \/ ReplyUnblock
    \/ ReplyBlock
    \/ ReplyUpdate
    \/ HandleRequestNotify
    \/ Deliver

\* The operator names Devices while the RADIUS server answers requests.
SpecRename == InitEdit /\ [][NextRename]_vars

(***************************************************************************)
(* The supervisor: serve opens the database, starts the RADIUS server and  *)
(* the bot in an errgroup and waits for them.  serve holds the contexts    *)
(* (TRUE: cancelled), the position of every goroutine, the first error of  *)
(* each errgroup and the end of the process.  A context that is cancelled  *)
(* cancels the contexts made from it in the same step.                     *)
(***************************************************************************)
ErrListen == "listen udp: address already in use"
ErrServerShutdown == "radius: server shutdown"

\* os.Exit(1), and the status of a process the runtime ends on SIGTERM.
ExitFailure == 1
ExitSIGTERM == 143

\* serve after db.Open and NewBotServer, the two errgroups started.
Serving ==
    [process |-> "running", status |-> 0, by |-> "",
     signals |-> 0,
     ctx |-> FALSE, egCtx |-> FALSE, egErr |-> NoError,
     server |-> [egCtx |-> FALSE, err |-> NoError, listen |-> "serving",
                 shutdown |-> "waiting", shut |-> FALSE, ret |-> Nil],
     bot |-> [start |-> "polling", stop |-> "waiting", ret |-> Nil],
     watch |-> "watching", watcherClosed |-> FALSE,
     exec |-> Nil, finalDump |-> "none"]

\* cancel() of the context of Run.
CancelCtx(s) ==
    [s EXCEPT !.ctx = TRUE, !.egCtx = TRUE, !.server.egCtx = TRUE]

\* The cancellation of the context of the errgroup of serve.
CancelEgCtx(s) == [s EXCEPT !.egCtx = TRUE, !.server.egCtx = TRUE]

\* errgroup: a goroutine of the group of serve returns err.
EgReturn(s, err) ==
    IF err # NoError
    THEN CancelEgCtx([s EXCEPT !.egErr = IF @ = NoError THEN err ELSE @])
    ELSE s

\* errgroup: a goroutine of the group of StartServer returns err.
ServerEgReturn(s, err) ==
    IF err # NoError
    THEN [s EXCEPT !.server.err = IF @ = NoError THEN err ELSE @,
                   !.server.egCtx = TRUE]
    ELSE s

serveAside ==
    <<ret, handled, call, goroutines, watcher, lruCache, trace, newDeviceCache,
      editDeviceCache, chat, ids, callers, radius>>

Step(s) ==
    /\ serve.process = "running"
    /\ serve' = s
    /\ UNCHANGED <<memory, file, serveAside>>

\* A signal reaches the process.  The first SIGINT cancels the context of
\* Run, the second forces the exit; SIGTERM is not trapped (Notify names
\* os.Interrupt and syscall.SIGINT, one signal), so the runtime ends the
\* process.
Signal(sig) ==
    IF sig = "SIGTERM"
    THEN Step([serve EXCEPT !.process = "exited", !.status = ExitSIGTERM,
                            !.by = "SIGTERM"])
    ELSE IF serve.signals = 0
    THEN Step([CancelCtx(serve) EXCEPT !.signals = 1])
    ELSE /\ serve.signals = 1
         /\ Step([serve EXCEPT !.signals = 2, !.process = "exited",
                               !.status = ExitFailure, !.by = "os.Exit"])

Signals == \E sig \in {"SIGINT", "SIGTERM"} : Signal(sig)

\* A bot handler blocks a username while the bot polls: the call of the
\* YAMLDatabase with its save, which may fail and leave the file behind.
ServeBlockUser ==
    \E n \in Usernames : \E o \in Saved(memory, file, BlockUser(memory, n)) :
        /\ serve.process = "running"
        /\ serve.bot.start = "polling"
        /\ memory' = o.db
        /\ file' = o.file
        /\ UNCHANGED <<serve, serveAside>>

\* server.ListenAndServe() fails while no shutdown was asked for.
ListenAndServeFails ==
    /\ serve.server.listen = "serving"
    /\ ~serve.server.shut
    /\ Step(ServerEgReturn([serve EXCEPT !.server.listen = "returned"], ErrListen))

\* The second goroutine of StartServer: <-egCtx.Done(), then
\* server.Shutdown on the context without cancel, which returns nil.
ServerShutdown ==
    /\ serve.server.egCtx
    /\ serve.server.shutdown = "waiting"
    /\ Step([serve EXCEPT !.server.shutdown = "returned", !.server.shut = TRUE])

\* server.ListenAndServe() returns ErrServerShutdown after Shutdown.
ListenAndServeReturns ==
    /\ serve.server.listen = "serving"
    /\ serve.server.shut
    /\ Step(ServerEgReturn([serve EXCEPT !.server.listen = "returned"],
                           ErrServerShutdown))

\* eg.Wait() of StartServer and its return to the errgroup of serve: the
\* error is returned unless the context StartServer was given is cancelled.
StartServerReturns ==
    /\ serve.server.ret = Nil
    /\ serve.server.listen = "returned"
    /\ serve.server.shutdown = "returned"
    /\ LET err == IF serve.server.err # NoError /\ ~serve.egCtx
                  THEN serve.server.err ELSE NoError
       IN  Step(EgReturn([serve EXCEPT !.server.ret = <<err>>], err))

\* The second goroutine of StartBot: <-egCtx.Done(), then bot.Stop(), which
\* returns when the poll loop has taken the stop.
BotStop ==
    /\ serve.egCtx
    /\ serve.bot.stop = "waiting"
    /\ serve.bot.start = "polling"
    /\ Step([serve EXCEPT !.bot.stop = "returned", !.bot.start = "stopped"])

\* bot.Start() returns.
BotStartReturns ==
    /\ serve.bot.start = "stopped"
    /\ Step([serve EXCEPT !.bot.start = "returned"])

\* eg.Wait() of StartBot: both goroutines return nil, so StartBot does.
StartBotReturns ==
    /\ serve.bot.ret = Nil
    /\ serve.bot.start = "returned"
    /\ serve.bot.stop = "returned"
    /\ Step(EgReturn([serve EXCEPT !.bot.ret = <<NoError>>], NoError))

\* The watch goroutine: <-ctx.Done(), d.watcher.Close().
WatchStops ==
    /\ serve.ctx
    /\ serve.watch = "watching"
    /\ Step([serve EXCEPT !.watch = "returned", !.watcherClosed = TRUE])

\* Faulty variant of ExecWait: the error of the group is returned whether
\* the context of Run is cancelled or not.
ExecWaitAnyError ==
    /\ serve.exec = Nil
    /\ serve.server.ret # Nil
    /\ serve.bot.ret # Nil
    /\ Step(CancelEgCtx([serve EXCEPT !.exec = <<serve.egErr>>]))

\* eg.Wait() of serve: the first error of the group, returned unless the
\* context of Run is cancelled.
ExecWait ==
    /\ serve.exec = Nil
    /\ serve.server.ret # Nil
    /\ serve.bot.ret # Nil
    /\ Step(CancelEgCtx([serve EXCEPT
                            !.exec = <<IF serve.egErr # NoError /\ ~serve.ctx
                                       THEN serve.egErr ELSE NoError>>]))

\* The deferred db.Close: save(), then d.watcher.Close() when the save
\* succeeded; the error of Close is dropped.
Close ==
    /\ serve.process = "running"
    /\ serve.exec # Nil
    /\ serve.finalDump = "none"
    /\ \/ /\ file' \in dumpFile(memory)
          /\ serve' = [serve EXCEPT !.finalDump = "saved", !.watcherClosed = TRUE]
       \/ /\ file' \in {file, EmptyFile}
          /\ serve' = [serve EXCEPT !.finalDump = "failed"]
    /\ UNCHANGED <<memory, serveAside>>

\* Run returns the error of serve and cancels its context; main exits with
\* status 1 on an error and returns otherwise.
Exit ==
    /\ serve.exec # Nil
    /\ serve.finalDump # "none"
    /\ Step([CancelCtx(serve) EXCEPT !.process = "exited", !.by = "main",
                !.status = IF serve.exec[1] # NoError THEN ExitFailure ELSE 0])

\* serve on a registry file with the VLANs of the model.
InitServe ==
    /\ memory \in {d \in WithVLANs({NewMemoryDatabase}, MaxVLANs) :
                      /\ DOMAIN d.vlans = VlanIDs
                      /\ \A id \in VlanIDs : d.vlans[id].Default => id = "1"}
    /\ file \in dumpFile(memory)
    /\ ret = <<>>
    /\ handled = <<>>
    /\ call = <<>>
    /\ bot = <<>>
    /\ reloader = [armed |-> FALSE, loaded |-> <<>>]
    /\ watcher = NoWatcher
    /\ lruCache = NewLRUCache(1)
    /\ trace = <<>>
    /\ newDeviceCache = NewLRUCache(newDeviceDataCacheSize)
    /\ editDeviceCache = NewLRUCache(editDeviceDataCacheSize)
    /\ chat = <<>>
    /\ ids = 0
    /\ callers = <<>>
    /\ radius = <<>>
    /\ serve = Serving

Goroutine ==
    \/ ServerShutdown
    \/ ListenAndServeReturns
    \/ StartServerReturns
    \/ BotStop
    \/ BotStartReturns
    \/ StartBotReturns
    \/ WatchStops
    \/ ExecWait
    \/ Close
    \/ Exit

NextServe ==
    \/ Signals
    \/ ServeBlockUser
    \/ ListenAndServeFails
    \/ Goroutine

SpecServe == InitServe /\ [][NextServe]_vars

(***************************************************************************)
(* Properties of the registry.                                             *)
(***************************************************************************)
\* C9: after any sequence of createVLAN, updateVLAN and deleteVLAN on an
\* empty registry, at most one VLAN of the registry has default = true.
C9_AtMostOneDefault ==
    Cardinality({id \in DOMAIN memory.vlans : memory.vlans[id].Default}) <= 1

\* C10: a registry mutation that returns an error leaves the registry as it
\* was before the call.
C10_NoPartialMutation ==
    [][(ret = <<>> /\ ret' # <<>> /\ ret'[1].err # NoError) => memory' = memory]_vars

\* Invariant V1 and V2 as properties of a registry: at most one VLAN has
\* default = true, and the vlanId of every Device names a VLAN.
V1(d) == Cardinality({id \in DOMAIN d.vlans : d.vlans[id].Default}) <= 1
V2(d) == \A u \in Range(d.users) : u.VlanID \in DOMAIN d.vlans

\* C15: for every registry reached through the registry operations that
\* satisfies V1 and V2, loading a dump of it succeeds and gives the same
\* VLANs, Devices and blocklist and the same result of getDefaultVLAN.
C15_RoundTrip ==
    (V1(memory) /\ V2(memory)) =>
        \A f \in dumpFile(memory) :
            /\ loadFile(f).err = NoError
            /\ loadFile(f).db[1].vlans = memory.vlans
            /\ loadFile(f).db[1].users = memory.users
            /\ loadFile(f).db[1].blockedUsers = memory.blockedUsers
            /\ GetDefaultVLAN(loadFile(f).db[1]) = GetDefaultVLAN(memory)

\* The traced call that has returned: its operation, argument, error and the
\* registry it started from.
Returned(op) == ret # <<>> /\ call # <<>> /\ ret[1].op = op
Arg == call[1].arg
Before == call[1].before
Err == ret[1].err

\* C11: createDevice with a vlanId that names no VLAN of the registry fails
\* and adds no Device.
C11_CreateDeviceNeedsVLAN ==
    (Returned("CreateUser") /\ Arg.VlanID \notin DOMAIN Before.vlans) =>
        /\ Err # NoError
        /\ memory.users = Before.users

\* A createDevice for a new username on a missing VLAN has failed.
C11_Witness ==
    /\ Returned("CreateUser")
    /\ Arg.VlanID \notin DOMAIN Before.vlans
    /\ Arg.Username \notin DOMAIN Before.users
    /\ Err = ErrVLANNotFound

C13_UnblockCreatesDevice ==
    (/\ Returned("UnblockUser")
     /\ Arg \in DOMAIN Before.blockedUsers
     /\ Arg \notin DOMAIN Before.users) =>
        IF DOMAIN Before.vlans = {}
        THEN Err # NoError
        ELSE /\ Err = NoError
             /\ ~IsUserBlocked(memory, Arg).blocked
             /\ GetUser(memory, Arg).err = NoError
             /\ LET def == GetDefaultVLAN(Before)
                    vlanID == GetUser(memory, Arg).user[1].VlanID
                IN  IF def.err = NoError
                    THEN vlanID = def.vlan[1].ID
                    ELSE vlanID \in DOMAIN memory.vlans

\* C14: block(u) leaves u blocked, and block(u) on a blocked u returns
\* AlreadyExists (ErrUserAlreadyBlocked), keeps exactly one blocklist entry
\* for u and leaves the rest of the registry as it was.
C14_BlockTwice ==
    Returned("BlockUser") =>
        /\ Arg \in DOMAIN memory.blockedUsers
        /\ Arg \in DOMAIN Before.blockedUsers =>
              /\ Err = ErrUserAlreadyBlocked
              /\ Cardinality({k \in DOMAIN memory.blockedUsers :
                                 memory.blockedUsers[k].Username = Arg}) = 1
              /\ memory = Before

\* A second block of the same username has returned.
C14_Witness ==
    /\ Returned("BlockUser")
    /\ Arg \in DOMAIN Before.blockedUsers
    /\ Err = ErrUserAlreadyBlocked

(***************************************************************************)
(* Properties of the YAMLDatabase.                                         *)
(***************************************************************************)
SaveErrors == {ErrCreating, ErrEncoding}

\* A step in which a mutating method of the YAMLDatabase runs and returns.
Mutation == ret = <<>> /\ ret' # <<>> /\ ret'[1].op # "load"

\* C16: after a mutation through the YAMLDatabase that returns nil the file
\* is an encoding of the registry in memory, and a mutation that fails in the
\* MemoryDatabase leaves the file as it was.
C16_SaveOnMutate ==
    [][Mutation =>
          /\ ret'[1].err = NoError => file' \in dumpFile(memory')
          /\ ret'[1].err \notin SaveErrors \cup {NoError} => file' = file]_vars

\* A createDevice through the YAMLDatabase has returned nil and the Device is
\* in the registry and in the file.
C16_Witness ==
    /\ Returned("CreateUser")
    /\ Err = NoError
    /\ Arg.Username \in DOMAIN memory.users
    /\ \E i \in DOMAIN Section(file, "users") :
          DecodeUser(Section(file, "users")[i]) = Arg

\* What the call op(arg) on the MemoryDatabase d may return.
MemoryCall(op, d, arg) ==
    CASE op = "CreateVLAN" -> {CreateVLAN(d, arg)}
      [] op = "UpdateVLAN" -> {UpdateVLAN(d, arg)}
      [] op = "DeleteVLAN" -> {DeleteVLAN(d, arg)}
      [] op = "CreateUser" -> {CreateUser(d, arg)}
      [] op = "UpdateUser" -> {UpdateUser(d, arg)}
      [] op = "DeleteUser" -> {DeleteUser(d, arg)}
      [] op = "BlockUser" -> {BlockUser(d, arg)}
      [] op = "UnblockUser" -> {UnblockUser(d, arg, vlans) : vlans \in GetVLANs(d)}

\* C18: when the dump after a successful mutation of the registry in memory
\* fails, the call returns an error, the registry in memory is the mutated
\* one, and the file keeps the content it had before the call.
C18_FailedDumpKeepsFile ==
    [][(Mutation /\ ret'[1].err \in SaveErrors) =>
          /\ \E out \in MemoryCall(ret'[1].op, memory, call'[1].arg) :
                out.err = NoError /\ memory' = out.db
          /\ file' = file]_vars

\* A file that does not parse or breaks an invariant of the registry:
\* two VLANs of one id, two default VLANs, two Devices of one username, a
\* Device whose vlan is no VLAN of the file, a username blocked twice.
Duplicates(items, key) ==
    \E i, j \in DOMAIN items : i # j /\ items[i][key] = items[j][key]
FileBroken(f) ==
    \/ f.kind # "mapping"
    \/ Duplicates(Section(f, "vlans"), "id")
    \/ \E i, j \in DOMAIN Section(f, "vlans") :
          /\ i # j
          /\ "default" \in DOMAIN Section(f, "vlans")[i]
          /\ "default" \in DOMAIN Section(f, "vlans")[j]
    \/ Duplicates(Section(f, "users"), "username")
    \/ \E i \in DOMAIN Section(f, "users") :
          \A j \in DOMAIN Section(f, "vlans") :
              Section(f, "vlans")[j]["id"] # Section(f, "users")[i]["vlan"]
    \/ Duplicates(Section(f, "blocked"), "username")

\* C19: a load of a file that does not parse or breaks an invariant returns
\* an error and leaves the registry in memory exactly as it was.
C19_FailedLoadKeepsRegistry ==
    (Returned("load") /\ FileBroken(Arg)) =>
        /\ Err # NoError
        /\ memory = Before

\* A reload has failed on a file whose VLANs stand before its Devices and
\* lack the vlan of one Device, while the registry held a VLAN.
C19_Witness ==
    /\ Returned("load")
    /\ Arg.kind = "mapping"
    /\ Arg.sections[1].key = "vlans"
    /\ Err = ErrVLANNotFound
    /\ memory = Before
    /\ DOMAIN memory.vlans # {}

\* C17: when the select-vlan handler has edited the chat message to its
\* success form, the Device it created is in the registry in memory and in
\* the file, whatever the reload of the watcher did meanwhile.
C17_DurableBeforeSuccess ==
    [][(bot # <<>> /\ bot[1].at = "Edit" /\ bot' # <<>> /\ bot'[1].at = "return") =>
          /\ bot[1].user.Username \in DOMAIN memory.users
          /\ file.kind = "mapping"
          /\ \E i \in DOMAIN Section(file, "users") :
                DecodeUser(Section(file, "users")[i]) = bot[1].user]_vars

\* C20: of the Write events of a burst, each less than 100 ms after the
\* previous one, the loader makes one reload attempt and no more, and that
\* attempt begins after the last event.
C20_OneReloadAfterBurst ==
    /\ watcher.reloads <= 1
    /\ watcher.reloads = 1 => watcher.fresh

(***************************************************************************)
(* Properties of the correlation cache.                                    *)
(***************************************************************************)
\* The reference LRU map after the first n calls of trace: the value of each
\* key it holds (vals) and the number of the last Set or found Get of the
\* key (used).  A Set of a new key into a full map drops the key of the
\* least used number.
RECURSIVE RefLRU(_)
RefLRU(n) ==
    IF n = 0 THEN [vals |-> EmptyMap, used |-> EmptyMap]
    ELSE LET prev == RefLRU(n - 1)
             o == trace[n]
             held == DOMAIN prev.vals
             victim == CHOOSE k \in held : \A j \in held : prev.used[k] <= prev.used[j]
         IN  IF o.op = "Get"
             THEN IF o.key \in held
                  THEN [prev EXCEPT !.used = MapPut(@, o.key, n)]
                  ELSE prev
             ELSE IF o.key \in held \/ Cardinality(held) < lruCache.capacity
             THEN [vals |-> MapPut(prev.vals, o.key, o.value[1]),
                   used |-> MapPut(prev.used, o.key, n)]
             ELSE [vals |-> MapPut(MapDelete(prev.vals, victim), o.key, o.value[1]),
                   used |-> MapPut(MapDelete(prev.used, victim), o.key, n)]

\* What the cache holds: the value of each key of its map.
Held(c) == [k \in DOMAIN c.cache |-> c.queue[Element(c, k)].value]

\* C24: for every sequence of Set and Get the cache of capacity C >= 1 is
\* the reference LRU map: it never holds more than C entries, it holds the
\* keys and values the reference holds (so a Set always stores its value, a
\* Set of a held key evicts nothing, and a Set of a new key into a full
\* cache evicts exactly the entry least recently touched by Set or Get),
\* every Get returned what the reference held, and the list is ordered
\* from the most to the least recently touched.
C24_ReferenceLRU ==
    LET ref == RefLRU(Len(trace))
    IN  /\ Len(lruCache.queue) <= lruCache.capacity
        /\ Cardinality(DOMAIN lruCache.cache) = Len(lruCache.queue)
        /\ Held(lruCache) = ref.vals
        /\ \A i, j \in DOMAIN lruCache.queue :
              i < j => ref.used[lruCache.queue[i].key] > ref.used[lruCache.queue[j].key]
        /\ \A n \in DOMAIN trace :
              trace[n].op = "Get" =>
                 /\ trace[n].ok = (trace[n].key \in DOMAIN RefLRU(n - 1).vals)
                 /\ trace[n].ok => trace[n].value = <<RefLRU(n - 1).vals[trace[n].key]>>
                 /\ ~trace[n].ok => trace[n].value = <<>>

\* A Get has promoted a key of a full cache that was not the most recent,
\* and the Set of a new key that came next has evicted another key.
C24_Witness ==
    /\ Len(trace) >= 4
    /\ LET n == Len(trace)
           before == RefLRU(n - 2)
       IN  /\ trace[n - 1].op = "Get"
           /\ trace[n - 1].ok
           /\ Cardinality(DOMAIN before.vals) = lruCache.capacity
           /\ \A k \in DOMAIN before.vals : before.used[trace[n - 1].key] <= before.used[k]
           /\ lruCache.capacity >= 2
           /\ trace[n].op = "Set"
           /\ trace[n].key \notin DOMAIN before.vals
           /\ trace[n - 1].key \in DOMAIN lruCache.cache
           /\ trace[n].key \in DOMAIN lruCache.cache

(***************************************************************************)
(* Properties of the goroutines that share the registry.                   *)
(***************************************************************************)
\* The registry the two callers started from: they only add Devices.
CallersStart == [memory EXCEPT !.users = EmptyMap]

\* C21: registry operations never overlap, so each reads and writes the
\* registry as if it ran alone: when two concurrent CreateUser calls have
\* returned, their errors and the registry are those of the two calls run
\* one after the other in some order (two calls for the same username do
\* not both succeed).
C21_Serialised ==
    (\A g \in Goroutines : callers[g].at = "returned") =>
        \E g, h \in Goroutines :
            /\ g # h
            /\ LET first == CreateUser(CallersStart, callers[g].user)
                   second == CreateUser(first.db, callers[h].user)
               IN  /\ callers[g].err = first.err
                   /\ callers[h].err = second.err
                   /\ memory = second.db

\* C22: a reload is atomic with respect to a RADIUS handler in flight: the
\* response the handler writes and the notifications it makes are those of
\* the handler on the registry as it was when the handler started, or on
\* the registry as it is now (the reloaded one), in full.
C22_ReloadAtomic ==
    (radius # <<>> /\ radius[1].at = "Write") =>
        \E d \in {radius[1].old, memory} :
            /\ radius[1].response = Handler(d, radius[1].request).response
            /\ radius[1].notifications = Handler(d, radius[1].request).notifications

(***************************************************************************)
(* The bot flows and the RADIUS server.                                    *)
(***************************************************************************)
\* A step in which a bot handler of the given names returns.
Returns(ops) == ret = <<>> /\ ret' # <<>> /\ ret'[1].op \in ops

NewDeviceButtons ==
    {btnAddUnique, btnSelectVLANUnique, btnBackAddUnique, btnIgnoreUnique,
     btnBlocklistUnique}
EditDeviceButtons ==
    {btnEditChangeVLANUnique, btnEditBlockUnique, btnEditUnblockUnique,
     btnEditDeleteUnique, btnEditBackUnique, btnEditSelectVLANUnique}

\* C23: the handling of an Access-Request, whatever its answer and whether it
\* notifies the operators or not, leaves the registry (VLANs, Devices,
\* blocklist, default VLAN) and the registry file as they were.
C23_HotPathNeverWrites ==
    [][(handled = <<>> /\ handled' # <<>>) => (memory' = memory /\ file' = file)]_vars

\* A request was rejected and another was answered with a notification.
C23_Witness ==
    /\ handled # <<>>
    /\ handled[1].response.Code = CodeAccessReject
    /\ handled[1].notifications = <<>>
    /\ chat # <<>>

\* C25: a callback of an inline button of either flow whose token is not in
\* the cache of that flow returns ErrFailedToReadData, and the registry, the
\* file and the chat stay as they were.
C25_MissingToken ==
    [][/\ Returns(NewDeviceButtons) /\ call'[1].arg.data \notin DOMAIN newDeviceCache.cache
          => /\ ret'[1].err = ErrFailedToReadData
             /\ memory' = memory /\ file' = file /\ chat' = chat
       /\ Returns(EditDeviceButtons) /\ call'[1].arg.data \notin DOMAIN editDeviceCache.cache
          => /\ ret'[1].err = ErrFailedToReadData
             /\ memory' = memory /\ file' = file /\ chat' = chat]_vars

\* A button on display was pressed after its token was evicted.
C25_Witness ==
    /\ ret # <<>>
    /\ ret[1].op \in NewDeviceButtons \cup EditDeviceButtons
    /\ ret[1].err = ErrFailedToReadData
    /\ \E b \in Range(chat[call[1].arg.message].markup) :
          b.unique = ret[1].op /\ b.data = call[1].arg.data

\* C29: the Ignore button changes neither the registry nor the file, and a
\* request of the ignored username, while it is neither a Device nor blocked,
\* gets the default response and a notification again.
C29_IgnoreMutatesNothing ==
    [][Returns({btnIgnoreUnique}) /\ ret'[1].err = NoError
       => LET data == Get(newDeviceCache, call'[1].arg.data).value[1]
              r == [UserName |-> data.Username, UserPassword |-> data.Password,
                    CallingStationID |-> data.MacAddress]
          IN  /\ memory' = memory
              /\ file' = file
              /\ (GetUser(memory', data.Username).err # NoError
                    /\ ~IsUserBlocked(memory', data.Username).blocked)
                 => /\ Handler(memory', r).response = DefaultResponse(memory')
                    /\ Handler(memory', r).notifications # <<>>]_vars

\* A request of a username was answered with a notification after the
\* notification before was ignored.
C29_Witness ==
    /\ handled # <<>>
    /\ handled[1].notifications # <<>>
    /\ \E m \in DOMAIN chat :
          /\ chat[m].text.form = "Request Ignored"
          /\ chat[m].text.Username = handled[1].request.UserName
    /\ chat[Len(chat)].text.form = "New Device Detected"
    /\ chat[Len(chat)].text.Username = handled[1].request.UserName

\* C26: when the operator has clicked Add on the notification of username u
\* with password p and the pick of VLAN v has succeeded, the registry holds
\* the Device u with password p on VLAN v, the file is the dump of the
\* registry, and a request with that username and password is accepted on
\* VLAN v.
C26_AddFlow ==
    [][Returns({btnSelectVLANUnique}) /\ ret'[1].err = NoError
       => LET data == Get(newDeviceCache, call'[1].arg.data).value[1]
              r == [UserName |-> data.Username, UserPassword |-> data.Password,
                    CallingStationID |-> data.MacAddress]
          IN  /\ GetUser(memory', data.Username).user =
                    <<[Username |-> data.Username, Password |-> data.Password,
                       VlanID |-> data.VlanID, Description |-> ""]>>
              /\ file' \in dumpFile(memory')
              /\ Handler(memory', r).response =
                    setPacketVLAN(Response(CodeAccessAccept),
                                  memory'.vlans[data.VlanID])]_vars

\* The state of a notification message, read off its text.
StateOf(msg) ==
    CASE msg.text.form = "New Device Detected" -> "NOTIFY"
      [] msg.text.form = "Add to Network" -> "CHOOSE_VLAN"
      [] msg.text.form = "Request Ignored" -> "IGNORED"
      [] msg.text.form = "User Blocked" -> "BLOCKED"
      [] msg.text.form = "Success" -> "ADDED"
      [] OTHER -> "NONE"

\* The transitions of the state machine of a notification, each with the
\* button that makes it.
Transitions ==
    {<<"NOTIFY", btnAddUnique, "CHOOSE_VLAN">>,
     <<"NOTIFY", btnIgnoreUnique, "IGNORED">>,
     <<"NOTIFY", btnBlocklistUnique, "BLOCKED">>,
     <<"CHOOSE_VLAN", btnSelectVLANUnique, "ADDED">>,
     <<"CHOOSE_VLAN", btnBackAddUnique, "NOTIFY">>}

\* The username, password and MAC address a notification message in state
\* NOTIFY is bound to: the data of the token of its buttons.
BoundTo(c, msg) ==
    LET data == Get(c, msg.markup[1].data).value[1]
    IN  <<data.Username, data.Password, data.MacAddress>>

\* C30: a notification message changes only by a transition of the state
\* machine, made by the button of that transition; Back leaves it bound to
\* the same username, password and MAC address; the messages in IGNORED,
\* BLOCKED and ADDED carry no buttons and change no more; and a handler that
\* returns an error leaves the messages as they were.
C30_StateMachine ==
    [][/\ \A m \in DOMAIN chat :
            chat'[m] # chat[m] =>
               /\ ret' # <<>>
               /\ <<StateOf(chat[m]), ret'[1].op, StateOf(chat'[m])>> \in Transitions
               /\ ret'[1].op = btnBackAddUnique =>
                     BoundTo(newDeviceCache', chat'[m]) =
                        <<chat[m].text.Username,
                          Get(newDeviceCache, call'[1].arg.data).value[1].Password,
                          chat'[m].text.MacAddress>>
               /\ StateOf(chat'[m]) \in {"IGNORED", "BLOCKED", "ADDED"} =>
                     chat'[m].markup = <<>>
       /\ (ret = <<>> /\ ret' # <<>> /\ ret'[1].err # NoError) => chat' = chat]_vars

(***************************************************************************)
(* The supervisor.                                                         *)
(***************************************************************************)
\* C27: a process that got SIGINT or SIGTERM, was not forced out by a second
\* SIGINT and saw no error of a component ends only when the shared context
\* was cancelled, the RADIUS server and the bot have stopped, the final dump
\* was run (and the watcher closed after it), and it ends with status 0.
C27_GracefulShutdown ==
    (/\ serve.process = "exited"
     /\ serve.by # "os.Exit"
     /\ serve.signals > 0 \/ serve.by = "SIGTERM"
     /\ serve.egErr = NoError)
    => /\ serve.ctx
       /\ serve.server.ret # Nil
       /\ serve.bot.ret # Nil
       /\ serve.finalDump # "none"
       /\ serve.finalDump = "saved" => (serve.watcherClosed /\ file \in dumpFile(memory))
       /\ serve.status = 0

\* C28: serve decides its result when StartServer and StartBot have both
\* returned; an error of the RADIUS server met while the context of the
\* caller is not cancelled is passed on, cancels the context of the bot and
\* ends the process with status 1; with the context cancelled the result is
\* nil and the status 0.
C28_SupervisorErrors ==
    [][/\ (serve.server.ret = Nil /\ serve'.server.ret # Nil) =>
             /\ serve.server.err # NoError /\ ~serve.egCtx
                => serve'.server.ret[1] = serve.server.err /\ serve'.egCtx
             /\ serve.egCtx => serve'.server.ret[1] = NoError
       /\ (serve.exec = Nil /\ serve'.exec # Nil) =>
             /\ serve.server.ret # Nil /\ serve.server.listen = "returned"
             /\ serve.bot.ret # Nil /\ serve.bot.start = "returned"
             /\ serve.server.ret[1] # NoError /\ ~serve.ctx
                => serve'.exec[1] = serve.server.ret[1]
             /\ serve.ctx => serve'.exec[1] = NoError
       /\ (serve.process = "running" /\ serve'.process = "exited"
              /\ serve'.by = "main") =>
             serve'.status = IF serve.exec[1] # NoError THEN ExitFailure ELSE 0]_vars

\* The RADIUS server failed, the bot was stopped and the process has ended
\* with status 1.
C28_Witness ==
    /\ serve.process = "exited"
    /\ serve.by = "main"
    /\ serve.status = ExitFailure
    /\ serve.exec = <<ErrListen>>
    /\ serve.bot.ret # Nil
    /\ ~serve.ctx \/ serve.signals = 0

(***************************************************************************)
(* Properties of the default VLAN, the edit flow and the running system.   *)
(***************************************************************************)
\* C36: after any sequence of registry operations getDefaultVLAN agrees with
\* the VLAN set: it returns VLAN v exactly if v is in the registry with
\* default = true, with the fields v has now, and NotFound exactly if no VLAN
\* of the registry has default = true.
C36_DefaultAgrees ==
    LET def == GetDefaultVLAN(memory)
    IN  /\ def.err = NoError =>
              /\ def.vlan[1].ID \in DOMAIN memory.vlans
              /\ memory.vlans[def.vlan[1].ID] = def.vlan[1]
              /\ def.vlan[1].Default
        /\ def.err = ErrDefaultVLANNotFound <=>
              ~\E id \in DOMAIN memory.vlans : memory.vlans[id].Default

\* C39: every response of the RADIUS pipeline is an Access-Reject without
\* tunnel attributes or an Access-Accept with the tunnel attributes of
\* exactly one VLAN, which is the VLAN of the requesting Device or the
\* default VLAN; the attributes of the prepared default accept never show in
\* a reject and no accept goes out without a VLAN.
C39_ResponseShape ==
    handled # <<>> =>
        \/ IsReject(Resp)
        \/ /\ Resp.Code = "Access-Accept"
           /\ Cardinality({v \in Range(memory.vlans) : IsAcceptWith(Resp, v)}) = 1
           /\ \E v \in Range(memory.vlans) :
                 /\ IsAcceptWith(Resp, v)
                 /\ \/ /\ Known(Req.UserName)
                       /\ Device(Req.UserName).VlanID = v.ID
                    \/ v \in DefaultVLANs

\* A blocked username has been rejected while the registry has a default
\* VLAN: the accept prepared with it was dropped with its attributes.
C39_Witness ==
    /\ handled # <<>>
    /\ DefaultVLANs # {}
    /\ Blocked(Req.UserName)
    /\ IsReject(Resp)

\* The handler of the "Add" or of the "Change VLAN" button has returned nil:
\* the message of the callback shows the VLAN selector.
SelectorRendered ==
    /\ ret # <<>>
    /\ ret[1].op \in {btnAddUnique, btnEditChangeVLANUnique}
    /\ ret[1].err = NoError

\* C31: in both flows, right after the VLAN selector is rendered, the token
\* of the Back button and the token of every VLAN button shown resolve in
\* the cache of the flow, for any number of VLANs in the registry.
C31_SelectorTokensResolve ==
    SelectorRendered =>
        \A b \in Range(chat[call[1].arg.message].markup) :
            IF b.unique \in NewDeviceButtons
            THEN Get(newDeviceCache, b.data).ok
            ELSE Get(editDeviceCache, b.data).ok

\* C32: from every edit view that offers the Delete button (that of a Device
\* that is not blocked, and that of a blocked username, with or without a
\* Device), a click on Delete whose token is in the cache and whose save does
\* not fail ends in the "User Deleted" message without keyboard, and the
\* username has no Device and no blocklist entry any more.
C32_DeleteEnds ==
    [][(/\ Returns({btnEditDeleteUnique})
        /\ Get(editDeviceCache, call'[1].arg.data).ok
        /\ ret'[1].err \notin SaveErrors)
       => LET data == Get(editDeviceCache, call'[1].arg.data).value[1]
              m == call'[1].arg.message
          IN  /\ ret'[1].err = NoError
              /\ chat'[m].text = [form |-> "User Deleted", Username |-> data.Username]
              /\ chat'[m].markup = <<>>
              /\ data.Username \notin DOMAIN memory'.users
              /\ data.Username \notin DOMAIN memory'.blockedUsers]_vars

\* C33: in the edit flow the pick of VLAN v for device u succeeds only if v
\* is a VLAN of the registry and u a Device at the time of the pick, and then
\* only the vlanId of u changes, to v: the username, password and
\* description of u, every other Device, the VLANs, the default VLAN and the
\* blocklist stay as they were.
C33_PickChangesOnlyVLAN ==
    [][(/\ Returns({btnEditSelectVLANUnique})
        /\ Get(editDeviceCache, call'[1].arg.data).ok
        /\ ret'[1].err = NoError)
       => LET data == Get(editDeviceCache, call'[1].arg.data).value[1]
          IN  /\ data.VlanID \in DOMAIN memory.vlans
              /\ data.Username \in DOMAIN memory.users
              /\ memory'.users[data.Username] =
                    [memory.users[data.Username] EXCEPT !.VlanID = data.VlanID]
              /\ DOMAIN memory'.users = DOMAIN memory.users
              /\ \A n \in DOMAIN memory.users \ {data.Username} :
                    memory'.users[n] = memory.users[n]
              /\ memory'.vlans = memory.vlans
              /\ memory'.defaultVLAN = memory.defaultVLAN
              /\ memory'.blockedUsers = memory.blockedUsers]_vars

\* A pick has moved a Device from the first VLAN to the second while the
\* registry holds another Device.
C33_Witness ==
    /\ ret # <<>>
    /\ ret[1].op = btnEditSelectVLANUnique
    /\ ret[1].err = NoError
    /\ LET u == chat[call[1].arg.message].text.Username
       IN  /\ u \in DOMAIN memory.users
           /\ memory.users[u].VlanID = "2"
           /\ DOMAIN memory.users \ {u} # {}

C35_NeverGrantedMeanwhile ==
    (/\ bot # <<>>
     /\ bot[1].at = "UpdateUser"
     /\ bot[1].cycle
     /\ IsUserBlocked(memory, bot[1].username).blocked
     /\ handled # <<>>
     /\ Req.UserName = bot[1].username)
    => Resp.Code # "Access-Accept"


(***************************************************************************)
(* The running system around the selection of a VLAN in the edit flow: the *)
(* handler call by call, an administrator who edits the registry file and  *)
(* the reload of the watcher.  bot.at names the call the handler makes     *)
(* next, bot.vlan is the VLAN it has read and bot.user the Device.         *)
(***************************************************************************)
\* The tap arrives: editDeviceCache.Get and db.GetVLAN of the VLAN of the
\* button.  A token that is gone or a VLAN that is gone ends the handler.
PickStart ==
    \E m \in DOMAIN chat : \E b \in Range(chat[m].markup) :
        LET got == Get(editDeviceCache, b.data)
            vlan == GetVLAN(memory, got.value[1].VlanID)
        IN  /\ bot = <<>>
            /\ b.unique = btnEditSelectVLANUnique
            /\ got.ok
            /\ editDeviceCache' = got.c
            /\ bot' = IF vlan.err # NoError THEN <<>>
                      ELSE <<[at |-> "GetUser", message |-> m,
                              data |-> got.value[1], vlan |-> vlan.vlan[1],
                              user |-> ZeroUser]>>
            /\ UNCHANGED <<memory, ret, handled, call, file, reloader, watcher,
                           lruCache, trace, newDeviceCache, chat, ids, callers,
                           radius, serve>>

\* db.GetUser of the username of the button; an error ends the handler.
PickGetUser ==
    /\ bot # <<>>
    /\ bot[1].at = "GetUser"
    /\ LET user == GetUser(memory, bot[1].data.Username)
       IN  bot' = IF user.err # NoError THEN <<>>
                  ELSE <<[bot[1] EXCEPT !.at = "UpdateUser",
                                        !.user = user.user[1]]>>
    /\ UNCHANGED <<beyond, watcher, memory, ret, handled, call, file, reloader>>

\* user.VlanID = vlan.ID, db.UpdateUser and its save, buildEditMessage and
\* c.Edit; the handler returns.  The watcher sees the write of the save.
PickUpdate ==
    /\ bot # <<>>
    /\ bot[1].at = "UpdateUser"
    /\ \E o \in Saved(memory, file,
                      UpdateUser(memory, [bot[1].user EXCEPT
                                             !.VlanID = bot[1].vlan.ID])) :
        LET built == buildEditMessage(o.db, editDeviceCache, ids,
                                      bot[1].data.Username)
            done == o.err = NoError /\ built.err = NoError
        IN  /\ built.ids <= MaxIDs
            /\ memory' = o.db
            /\ file' = o.file
            /\ reloader' = IF o.file # file THEN Armed ELSE reloader
            /\ editDeviceCache' = IF done THEN built.c ELSE editDeviceCache
            /\ chat' = IF done THEN Edit(chat, bot[1].message, built.msg) ELSE chat
            /\ ids' = IF done THEN built.ids ELSE ids
            /\ bot' = <<>>
            /\ UNCHANGED <<ret, handled, call, watcher, lruCache, trace,
                           newDeviceCache, callers, radius, serve>>

\* An administrator takes a VLAN that no Device is on out of the registry
\* file and saves it.  The watcher arms the reload.
AdminRemovesVLAN ==
    \E id \in DOMAIN memory.vlans :
        /\ file \in dumpFile(memory)
        /\ \A u \in Range(memory.users) : u.VlanID # id
        /\ file' \in dumpFile(DeleteVLAN(memory, id).db)
        /\ reloader' = Armed
        /\ UNCHANGED <<beyond, watcher, memory, ret, handled, call, bot>>

NextSystem ==
    \/ OnEditCommand
    \/ Callback(btnEditChangeVLANUnique)
    \/ Return
    \/ PickStart
    \/ PickGetUser
    \/ PickUpdate
    \/ AdminRemovesVLAN
    \/ ReloadRead
    \/ ReloadAssign

\* The operator changes the VLAN of Devices while an administrator edits the
\* registry file and the watcher reloads it.
SpecSystem == InitEdit /\ [][NextSystem]_vars

\* C37: in every reachable state of the running system, every Device's
\* vlanId names a VLAN that exists in the in-memory registry.
C37_DevicesOnExistingVLANs == V2(memory)


(***************************************************************************)
(* The registry file, the watcher and the reloads.  The file is written by *)
(* an administrator or by the save of a bot handler, the loop of watch     *)
(* arms a timer for each Write event, and the callback of a timer runs     *)
(* load in a goroutine of its own: loadFile, then d.memory = db.           *)
(* reloader.loaded holds the databases that callbacks have built and not   *)
(* assigned yet.                                                           *)
(***************************************************************************)
\* fsnotify sees a write of the file: a Write event waits in watcher.Events.
Written == [watcher EXCEPT !.sent = @ + 1, !.last = watcher.now,
                           !.queue = @ + 1, !.fresh = FALSE]

\* An administrator saves the file with an editor.
AdminWrite ==
    /\ watcher.sent < MaxEvents
    /\ file' \in EditedFiles(memory)
    /\ file' # file
    /\ watcher' = Written
    /\ UNCHANGED <<memory, ret, handled, call, goroutines, beyond>>

\* A bot handler blocks a username: db.BlockUser and its save, which writes
\* the file.
BotSave ==
    \E n \in Usernames :
        /\ watcher.sent < MaxEvents
        /\ BlockUser(memory, n).err = NoError
        /\ memory' = BlockUser(memory, n).db
        /\ file' \in dumpFile(memory')
        /\ watcher' = Written
        /\ UNCHANGED <<ret, handled, call, goroutines, beyond>>

\* The callback, d.load(), first statement: loadFile reads the file and
\* builds a database; on an error the callback logs it and ends.
CallbackLoadFile ==
    \E i \in DOMAIN watcher.timers :
        /\ watcher.timers[i].state = "cleared"
        /\ watcher' = [watcher EXCEPT
                !.timers[i].state = IF loadFile(file).err = NoError
                                    THEN "loaded" ELSE "done",
                !.reloads = @ + 1, !.fresh = TRUE]
        /\ reloader' = IF loadFile(file).err = NoError
                       THEN [reloader EXCEPT !.loaded =
                                Append(@, [timer |-> i, db |-> loadFile(file).db[1]])]
                       ELSE reloader
        /\ UNCHANGED <<memory, ret, handled, call, file, bot, beyond>>

\* The callback, d.load(), last statement: d.memory = db.
CallbackAssign ==
    \E k \in DOMAIN reloader.loaded :
        /\ memory' = reloader.loaded[k].db
        /\ watcher' = [watcher EXCEPT !.timers[reloader.loaded[k].timer].state = "done"]
        /\ reloader' = [reloader EXCEPT !.loaded =
                            SubSeq(@, 1, k - 1) \o SubSeq(@, k + 1, Len(@))]
        /\ UNCHANGED <<ret, handled, call, file, bot, beyond>>

NextConverge ==
    \/ AdminWrite
    \/ BotSave
    \/ Receive
    \/ Fire
    \/ CallbackClear
    \/ CallbackLoadFile
    \/ CallbackAssign
    \/ Tick

\* The registry file is written and the watcher reloads it.
SpecConverge == InitWatch /\ [][NextConverge]_vars

\* The writes have stopped and the watcher has nothing left to do: no event
\* waits, every timer was stopped or its callback has ended.
Quiet ==
    /\ watcher.sent > 0
    /\ watcher.queue = 0
    /\ \A i \in DOMAIN watcher.timers : watcher.timers[i].state \in {"stopped", "done"}
    /\ reloader.loaded = <<>>

\* C38: once the writes to the registry file have stopped and the debounce
\* timer has fired, if the file is a valid registry the registry in memory
\* becomes the one the file describes.  When the watcher has nothing left to
\* do, no later step can make them equal, so they are equal then.
C38_Converged ==
    (Quiet /\ loadFile(file).err = NoError) => memory = loadFile(file).db[1]

====
